---- MODULE Spec2Model ----
(***************************************************************************)
(* Model of the clustering engine of tr-benchmarking (src/lsh):            *)
(*   lsh_index.py   LSHIndex (random-hyperplane signatures, banded hash)   *)
(*   clustering.py  build_similarity_graph, cluster_graph,                 *)
(*                  get_cluster_representatives                            *)
(*   pipeline.py    LSHEvaluationPipeline                                  *)
(*                                                                         *)
(* Document ids are strings in the code; they are modelled by the naturals *)
(* 1..MaxDocs, whose order stands for the lexicographic order sorted()     *)
(* uses.  Embedding vectors are integer vectors with integer Euclidean     *)
(* norm, so that every cosine similarity is an exact rational <<n, d>>.    *)
(* A Python dict is an insertion-ordered association list: a sequence of   *)
(* <<key, value>> pairs with distinct keys.                                *)
(***************************************************************************)
EXTENDS Integers, Sequences, FiniteSets, TLC

VARIABLES
    lsh_index,    \* an LSHIndex object (the pipeline's self.lsh_index), or None
    first_vec,    \* history: doc_id -> the vector of its first LSHIndex.add
    embeddings,   \* LSHEvaluationPipeline.embeddings: dict doc_id -> vector
    config,       \* the pipeline's constructor arguments and the environment
    call,         \* the last call made: its name and arguments
    ret,          \* what that call returned or raised
    sweep         \* temperature_sweep.run: its arguments, position and locals

vars == <<lsh_index, first_vec, embeddings, config, call, ret, sweep>>

---------------------------------------------------------------------------
(* Bounds of the model *)

MaxDocs == 3

MaxBits == 2

MaxBands == 2

MaxCands == 2

MaxPipelineDocs == 2

DocIds == 1..MaxDocs

\* The ids of the documents a pipeline is fed with.
PipelineDocIds == 1..MaxPipelineDocs

---------------------------------------------------------------------------
(* Values *)

None == [kind |-> "None"]

Raised(e) == [kind |-> "raise", error |-> e]

\* Embedding vectors: integer vectors of dimension 2 whose norms are 0, 1 or 5.
Vectors == { <<0, 0>>, <<1, 0>>, <<4, 3>>, <<3, 4>> }

Dot(u, v) == u[1] * v[1] + u[2] * v[2]

\* np.linalg.norm on the vectors above (all have an integer norm).
Norm(v) == CHOOSE n \in 0..(Dot(v, v)) : n * n = Dot(v, v)

\* np.random.seed(seed); np.random.randn(num_bits, input_dim): the rows are
\* consecutive draws of one stream that the seed fixes, so the hyperplanes of a
\* smaller num_bits are a prefix of those of a larger one.  The real values are
\* Gaussian draws in input_dim dimensions; RandnPool holds integer stand-ins in
\* dimension 2, of which only the side each vector lies on matters.
RandnPool == << <<1, -1>>, <<-3, 4>>, <<0, -1>>, <<1, 0>> >>

Seeds == {42, 7}

RandnRow(seed, i) == RandnPool[((seed + i) % Len(RandnPool)) + 1]

Randn(seed, num_bits) == [i \in 1..num_bits |-> RandnRow(seed, i)]

---------------------------------------------------------------------------
(* lsh_index.py : LSHIndex *)

\* A plausible slip of __init__: the divisibility test is left out.
LSHIndex_init_NoCheck(input_dim, num_bits, num_bands, seed) ==
    IF num_bands = 0 THEN Raised("ZeroDivisionError")
    ELSE [kind          |-> "LSHIndex",
          input_dim     |-> input_dim,
          num_bits      |-> num_bits,
          num_bands     |-> num_bands,
          rows_per_band |-> num_bits \div num_bands,
          hyperplanes   |-> Randn(seed, num_bits),
          band_tables   |-> [j \in 1..num_bands |-> <<>>],
          doc_ids       |-> {}]

\* LSHIndex.__init__: the object, or the exception the constructor raises.
\* rows_per_band = num_bits // num_bands is computed first, so num_bands = 0
\* raises ZeroDivisionError before the divisibility test is reached.
LSHIndex_init(input_dim, num_bits, num_bands, seed) ==
    IF num_bands = 0 THEN Raised("ZeroDivisionError")
    ELSE IF num_bits % num_bands # 0 THEN Raised("ValueError")
    ELSE [kind          |-> "LSHIndex",
          input_dim     |-> input_dim,
          num_bits      |-> num_bits,
          num_bands     |-> num_bands,
          rows_per_band |-> num_bits \div num_bands,
          hyperplanes   |-> Randn(seed, num_bits),
          band_tables   |-> [j \in 1..num_bands |-> <<>>],
          doc_ids       |-> {}]

\* LSHIndex._compute_signature: bit i is 1 iff hyperplane i . vector >= 0.
ComputeSignature(idx, vector) ==
    [i \in 1..idx.num_bits |->
        IF Dot(idx.hyperplanes[i], vector) >= 0 THEN 1 ELSE 0]

\* A plausible slip of add: every band is keyed by the first slice.
BandKey_FirstBand(idx, signature, i) ==
    SubSeq(signature, 1, idx.rows_per_band)

\* signature[start:end] for band i (0-based), then _hash_band (a tuple).
BandKey(idx, signature, i) ==
    SubSeq(signature, i * idx.rows_per_band + 1, (i + 1) * idx.rows_per_band)

\* band_tables[i][band_key].append(doc_id) on a defaultdict(list).
BucketAppend(table, key, doc_id) ==
    IF key \in DOMAIN table
    THEN [table EXCEPT ![key] = Append(@, doc_id)]
    ELSE (key :> <<doc_id>>) @@ table

\* A plausible slip of add: the membership test on doc_ids is left out.
LSHIndex_add_NoGuard(idx, vector, doc_id) ==
    LET signature == ComputeSignature(idx, vector) IN
    [idx EXCEPT
        !.band_tables = [j \in 1..idx.num_bands |->
            BucketAppend(idx.band_tables[j], BandKey(idx, signature, j - 1), doc_id)],
        !.doc_ids = @ \cup {doc_id}]

\* LSHIndex.add: the index after add(vector, doc_id).
LSHIndex_add(idx, vector, doc_id) ==
    IF doc_id \in idx.doc_ids THEN idx
    ELSE
        LET signature == ComputeSignature(idx, vector) IN
        [idx EXCEPT
            !.band_tables = [j \in 1..idx.num_bands |->
                BucketAppend(idx.band_tables[j], BandKey(idx, signature, j - 1), doc_id)],
            !.doc_ids = @ \cup {doc_id}]

\* A plausible slip of get_candidates: the pair is not sorted.
UnsortedPair(x, y) == <<x, y>>

\* sorted((x, y)) as a pair.
SortedPair(x, y) == IF x <= y THEN <<x, y>> ELSE <<y, x>>

\* A plausible slip of get_candidates: the bucket test is off by one.
BucketPairs_OffByOne(bucket_ids) ==
    IF Len(bucket_ids) > 2
    THEN { SortedPair(bucket_ids[i], bucket_ids[j]) :
             <<i, j>> \in { p \in (1..Len(bucket_ids)) \X (1..Len(bucket_ids)) : p[1] < p[2] } }
    ELSE {}

\* The pairs the two nested loops of get_candidates add for one bucket.
BucketPairs(bucket_ids) ==
    IF Len(bucket_ids) > 1
    THEN { SortedPair(bucket_ids[i], bucket_ids[j]) :
             <<i, j>> \in { p \in (1..Len(bucket_ids)) \X (1..Len(bucket_ids)) : p[1] < p[2] } }
    ELSE {}

\* LSHIndex.get_candidates.
GetCandidates(idx) ==
    UNION { UNION { BucketPairs(idx.band_tables[j][k]) : k \in DOMAIN idx.band_tables[j] }
            : j \in 1..idx.num_bands }

\* The ids of a bucket list.
Range(s) == { s[i] : i \in DOMAIN s }

\* A plausible slip of get_candidate_groups: the self-loops are not removed.
GetCandidateGroups_KeepSelf(idx) ==
    LET big == { b \in UNION { { idx.band_tables[j][k] : k \in DOMAIN idx.band_tables[j] }
                               : j \in 1..idx.num_bands } : Len(b) > 1 }
        keys == UNION { Range(b) : b \in big }
    IN  [d \in keys |-> UNION { Range(b) : b \in { c \in big : d \in Range(c) } }]

\* LSHIndex.get_candidate_groups: the defaultdict(set) it returns, as a function
\* over the keys it holds; a key is created for every member of a bucket of
\* more than one id, and the id itself is removed from its own set.
GetCandidateGroups(idx) ==
    LET big == { b \in UNION { { idx.band_tables[j][k] : k \in DOMAIN idx.band_tables[j] }
                               : j \in 1..idx.num_bands } : Len(b) > 1 }
        keys == UNION { Range(b) : b \in big }
    IN  [d \in keys |-> (UNION { Range(b) : b \in { c \in big : d \in Range(c) } }) \ {d}]

\* Reading adjacency[doc_id] from the returned defaultdict(set): a missing key
\* reads as the empty set.
GroupOf(adjacency, doc_id) ==
    IF doc_id \in DOMAIN adjacency THEN adjacency[doc_id] ELSE {}

---------------------------------------------------------------------------
(* Python dicts as insertion-ordered association lists *)

Keys(d) == { d[i][1] : i \in DOMAIN d }

\* d[k]
Get(d, k) == d[CHOOSE i \in DOMAIN d : d[i][1] = k][2]

\* d[k] = v: an existing key keeps its place, a new key goes last.
Put(d, k, v) ==
    IF k \in Keys(d)
    THEN [i \in DOMAIN d |-> IF d[i][1] = k THEN <<k, v>> ELSE d[i]]
    ELSE Append(d, <<k, v>>)

---------------------------------------------------------------------------
(* clustering.py : build_similarity_graph *)

\* The default threshold 0.7, the values 0.8 and 24/25 that pairs of Vectors
\* reach exactly, and 0, which a zero-norm pair reaches.
Thresholds == { <<7, 10>>, <<4, 5>>, <<0, 1>> }

\* A plausible slip of the similarity: the dot product is not normalised.
CosineSim_NoNorm(emb1, emb2) ==
    IF Norm(emb1) = 0 \/ Norm(emb2) = 0 THEN <<0, 1>>
    ELSE <<Dot(emb1, emb2), 1>>

\* sim of lines 32-38, as the exact rational <<numerator, denominator>>:
\* 0 when either norm is zero, else dot / (norm1 * norm2).
CosineSim(emb1, emb2) ==
    IF Norm(emb1) = 0 \/ Norm(emb2) = 0 THEN <<0, 1>>
    ELSE <<Dot(emb1, emb2), Norm(emb1) * Norm(emb2)>>

\* A plausible slip of the edge test: it is strict.
SimGT(sim, threshold) == sim[1] * threshold[2] > threshold[1] * sim[2]

\* sim >= threshold on rationals with positive denominators.
SimGE(sim, threshold) == sim[1] * threshold[2] >= threshold[1] * sim[2]

\* An nx.Graph is a record of its nodes in insertion order and its edges,
\* keyed by the set of their end points (one element for a self-loop), with
\* their weight.

\* Some enumeration of a set, as a sequence (Python's set iteration order).
RECURSIVE SetToSeq(_)
SetToSeq(S) ==
    IF S = {} THEN <<>>
    ELSE LET x == CHOOSE y \in S : \A z \in S : y <= z
         IN  <<x>> \o SetToSeq(S \ {x})

\* A plausible slip of build_similarity_graph: the test that both ids are in
\* embeddings is left out and a missing embedding reads as the zero vector,
\* so add_edge creates the missing nodes.
BuildSimilarityGraph_NoGuard(candidates, embs, threshold) ==
    LET vec(k) == IF k \in Keys(embs) THEN Get(embs, k) ELSE <<0, 0>>
        sim(p) == CosineSim(vec(p[1]), vec(p[2]))
        kept   == { p \in candidates : SimGE(sim(p), threshold) }
        extra  == { k \in UNION { {p[1], p[2]} : p \in kept } : k \notin Keys(embs) }
    IN  [kind  |-> "Graph",
         nodes |-> [i \in DOMAIN embs |-> embs[i][1]] \o SetToSeq(extra),
         edges |-> [e \in { {p[1], p[2]} : p \in kept } |->
                      sim(CHOOSE p \in kept : {p[1], p[2]} = e)]]

\* A plausible slip of build_similarity_graph: add_nodes_from is left out, so
\* the nodes are those the edges bring.
BuildSimilarityGraph_NodesFromEdges(candidates, embs, threshold) ==
    LET sim(p) == CosineSim(Get(embs, p[1]), Get(embs, p[2]))
        kept   == { p \in candidates :
                      /\ p[1] \in Keys(embs) /\ p[2] \in Keys(embs)
                      /\ SimGE(sim(p), threshold) }
    IN  [kind  |-> "Graph",
         nodes |-> SetToSeq(UNION { {p[1], p[2]} : p \in kept }),
         edges |-> [e \in { {p[1], p[2]} : p \in kept } |->
                      sim(CHOOSE p \in kept : {p[1], p[2]} = e)]]

\* build_similarity_graph(candidates, embeddings, threshold).  The loop runs
\* over a set; a pair and its reverse give the same similarity, so the graph
\* does not depend on the iteration order.
BuildSimilarityGraph(candidates, embs, threshold) ==
    LET sim(p) == CosineSim(Get(embs, p[1]), Get(embs, p[2]))
        kept   == { p \in candidates :
                      /\ p[1] \in Keys(embs) /\ p[2] \in Keys(embs)
                      /\ SimGE(sim(p), threshold) }
    IN  [kind  |-> "Graph",
         nodes |-> [i \in DOMAIN embs |-> embs[i][1]],
         edges |-> [e \in { {p[1], p[2]} : p \in kept } |->
                      sim(CHOOSE p \in kept : {p[1], p[2]} = e)]]

---------------------------------------------------------------------------
(* clustering.py : cluster_graph *)

\* The nodes an edge joins to n.
Neighbours(G, n) == { m \in Range(G.nodes) : {n, m} \in DOMAIN G.edges }

\* A search that stops after the first step: S and the neighbours of S.
Reachable_OneStep(G, S) == S \cup UNION { Neighbours(G, n) : n \in S }

\* The nodes reachable from the set S (the breadth-first search of
\* nx.connected_components).
RECURSIVE Reachable(_, _)
Reachable(G, S) ==
    LET next == S \cup UNION { Neighbours(G, n) : n \in S }
    IN  IF next = S THEN S ELSE Reachable(G, next)

\* nx.connected_components(G) from node position i on: for each node of G, in
\* G's node order, that no earlier component holds, the set of nodes reachable
\* from it.
RECURSIVE ConnectedComponents(_, _, _)
ConnectedComponents(G, i, seen) ==
    IF i > Len(G.nodes) THEN <<>>
    ELSE IF G.nodes[i] \in seen THEN ConnectedComponents(G, i + 1, seen)
    ELSE LET component == Reachable(G, {G.nodes[i]})
         IN  <<component>> \o ConnectedComponents(G, i + 1, seen \cup component)

\* All orders of a set, as sequences.
Perms(S) ==
    { p \in [1..Cardinality(S) -> S] : \A i, j \in 1..Cardinality(S) : i # j => p[i] # p[j] }

\* The loop of lines 58-60 from component i (1-based) on: the entries
\* <<node, i - 1>> it inserts into partition.  "for node in component" runs
\* over a Python set, whose iteration order is any order.
RECURSIVE LabelComponents(_, _)
LabelComponents(components, i) ==
    IF i > Len(components) THEN { <<>> }
    ELSE { [k \in DOMAIN p |-> <<p[k], i - 1>>] \o rest :
             p \in Perms(components[i]), rest \in LabelComponents(components, i + 1) }

\* The fallback of cluster_graph: the partition dicts {node: component index}
\* it may return.
ConnectedComponentPartitions(G) ==
    LabelComponents(ConnectedComponents(G, 1, {}), 1)

\* Label vectors over n items in which the labels used are 0..k-1, numbered in
\* the order of their first use, and, with withNoise, -1 for any item.
CanonicalLabels(n, withNoise) ==
    { f \in [1..n -> (IF withNoise THEN -1 ELSE 0)..(n - 1)] :
        \A i \in 1..n :
            f[i] <= 0 \/ \E j \in 1..(i - 1) : f[j] = f[i] - 1 }

\* community_louvain.best_partition(G, ...): the library is not part of the
\* repository; it returns one community label per node of G, the communities
\* numbered from 0.  Every grouping of the nodes is allowed.
LouvainPartitions(G) ==
    { [i \in DOMAIN G.nodes |-> <<G.nodes[i], f[i]>>] :
        f \in CanonicalLabels(Len(G.nodes), FALSE) }

\* cluster_graph(G, resolution): the partitions it may return.
ClusterGraph(G, louvain) ==
    IF louvain THEN LouvainPartitions(G) ELSE ConnectedComponentPartitions(G)

---------------------------------------------------------------------------
(* density_clustering.py : run_density_clustering *)

\* run_density_clustering(embeddings, ...): np.stack raises ValueError on an
\* empty list.  UMAP and HDBSCAN are libraries: fit_predict returns one label
\* per row, -1 for noise and 0..k-1 for the clusters; every such labelling is
\* allowed.  The partition dict follows the order of embeddings.  The outcomes
\* are the exception or the dict returned.
RunDensityClustering(embs) ==
    IF embs = <<>> THEN { Raised("ValueError") }
    ELSE { [kind |-> "dict", value |-> [i \in DOMAIN embs |-> <<embs[i][1], f[i]>>]] :
             f \in CanonicalLabels(Len(embs), TRUE) }

---------------------------------------------------------------------------
(* clustering.py : get_cluster_representatives *)

\* The distinct values of a sequence, in the order of their first occurrence.
RECURSIVE FirstOccurrences(_)
FirstOccurrences(seq) ==
    IF seq = <<>> THEN <<>>
    ELSE LET front == FirstOccurrences(SubSeq(seq, 1, Len(seq) - 1))
             last  == seq[Len(seq)]
         IN  IF last \in Range(front) THEN front ELSE Append(front, last)

\* clusters[cluster_id]: the doc ids with that label, in partition order.
Members(partition, cluster_id) ==
    LET hits == SelectSeq(partition, LAMBDA e : e[2] = cluster_id)
    IN  [i \in DOMAIN hits |-> hits[i][1]]

RECURSIVE SumSeq(_)
SumSeq(seq) == IF seq = <<>> THEN 0 ELSE seq[1] + SumSeq(Tail(seq))

\* Line 95 with "<=" for "<": a later member of equal distance replaces the
\* earlier one.
CloserThan_OrEqual(dist, min_dist) == min_dist = <<>> \/ dist <= min_dist[1]

\* Line 95: dist < min_dist.  min_dist is <<>> while it is float('inf'), and
\* <<d>> once a distance d has been kept.
CloserThan(dist, min_dist) == min_dist = <<>> \/ dist < min_dist[1]

\* The loop of lines 93-97 from member i on: best_rep after the last member.
RECURSIVE MedoidLoop(_, _, _, _, _)
MedoidLoop(members, dist, i, min_dist, best_rep) ==
    IF i > Len(members) THEN best_rep
    ELSE IF CloserThan(dist[i], min_dist)
         THEN MedoidLoop(members, dist, i + 1, <<dist[i]>>, members[i])
         ELSE MedoidLoop(members, dist, i + 1, min_dist, best_rep)

\* Lines 81-99: the representative of a cluster with these members.  With n
\* members, n^2 times the squared distance of member i to the mean of the
\* members' embeddings is an integer, and the order of the distances is the
\* order of these integers.
Medoid(members, embs) ==
    IF Len(members) = 1 THEN members[1]
    ELSE LET n       == Len(members)
             e       == [k \in 1..n |-> Get(embs, members[k])] \o <<>>
             tot     == << SumSeq([k \in 1..n |-> e[k][1]]), SumSeq([k \in 1..n |-> e[k][2]]) >>
             dist    == [i \in 1..n |->
                           (n * e[i][1] - tot[1]) * (n * e[i][1] - tot[1])
                         + (n * e[i][2] - tot[2]) * (n * e[i][2] - tot[2])] \o <<>>
         IN  MedoidLoop(members, dist, 1, <<>>, members[1])

\* get_cluster_representatives(partition, embeddings): the dict
\* {cluster_id: representative}, in the order the labels first occur.
GetClusterRepresentatives(partition, embs) ==
    LET labels == FirstOccurrences([i \in DOMAIN partition |-> partition[i][2]])
    IN  [i \in DOMAIN labels |-> <<labels[i], Medoid(Members(partition, labels[i]), embs)>>]

---------------------------------------------------------------------------
(* pipeline.py : LSHEvaluationPipeline *)

\* The seed LSHIndex takes when the pipeline passes none.
DefaultSeed == 42

\* The loop of build_index: add every embedding from position n on.
RECURSIVE AddAll(_, _, _)
AddAll(idx, embs, n) ==
    IF n > Len(embs) THEN idx
    ELSE AddAll(LSHIndex_add(idx, embs[n][2], embs[n][1]), embs, n + 1)

\* build_index without the test of lines 122-123: with no embeddings it
\* stores an index without documents.
BuildIndex_NoEmptyCheck(embs, cfg) ==
    LET idx == LSHIndex_init(IF embs = <<>> THEN 2 ELSE Len(embs[1][2]),
                             cfg.num_bits, cfg.num_bands, DefaultSeed)
    IN  IF idx.kind = "LSHIndex" THEN AddAll(idx, embs, 1) ELSE idx

\* build_index: the index it stores in self.lsh_index, or the exception it
\* raises (no embeddings, or the LSHIndex constructor's).
BuildIndex(embs, cfg) ==
    IF embs = <<>> THEN Raised("ValueError")
    ELSE LET idx == LSHIndex_init(Len(embs[1][2]), cfg.num_bits, cfg.num_bands, DefaultSeed)
         IN  IF idx.kind = "LSHIndex" THEN AddAll(idx, embs, 1) ELSE idx

\* The keys of the clusters dict: a label, or the string "noise".
ClusterKey(label) == IF label = -1 THEN <<"noise", 0>> ELSE <<"cluster", label>>

\* run_clustering without the filter of line 100: the representatives are
\* selected over the whole partition.
FormatResult_KeepNoise(partition, embs, isDensity) ==
    LET labels == { partition[i][2] : i \in DOMAIN partition }
        order  == FirstOccurrences([i \in DOMAIN partition |-> partition[i][2]])
    IN  [kind            |-> "result",
         num_clusters    |-> IF isDensity
                             THEN Cardinality(labels) - (IF -1 \in labels THEN 1 ELSE 0)
                             ELSE IF partition # <<>> THEN Cardinality(labels) ELSE 0,
         clusters        |-> [i \in DOMAIN order |->
                                <<ClusterKey(order[i]), Members(partition, order[i])>>],
         representatives |-> GetClusterRepresentatives(partition, embs),
         partition       |-> partition]

\* run_clustering counting the label -1 as a cluster (line 78 without its
\* subtraction).
FormatResult_CountNoise(partition, embs, isDensity) ==
    LET labels == { partition[i][2] : i \in DOMAIN partition }
        valid  == SelectSeq(partition, LAMBDA e : e[2] # -1)
        order  == FirstOccurrences([i \in DOMAIN partition |-> partition[i][2]])
    IN  [kind            |-> "result",
         num_clusters    |-> IF partition # <<>> THEN Cardinality(labels) ELSE 0,
         clusters        |-> [i \in DOMAIN order |->
                                <<ClusterKey(order[i]), Members(partition, order[i])>>],
         representatives |-> GetClusterRepresentatives(valid, embs),
         partition       |-> partition]

\* Lines 98-116 of run_clustering: the dict it returns for a partition.
\* isDensity selects the way num_clusters was counted (line 78 or line 94).
FormatResult(partition, embs, isDensity) ==
    LET labels == { partition[i][2] : i \in DOMAIN partition }
        valid  == SelectSeq(partition, LAMBDA e : e[2] # -1)
        order  == FirstOccurrences([i \in DOMAIN partition |-> partition[i][2]])
    IN  [kind            |-> "result",
         num_clusters    |-> IF isDensity
                             THEN Cardinality(labels) - (IF -1 \in labels THEN 1 ELSE 0)
                             ELSE IF partition # <<>> THEN Cardinality(labels) ELSE 0,
         clusters        |-> [i \in DOMAIN order |->
                                <<ClusterKey(order[i]), Members(partition, order[i])>>],
         representatives |-> GetClusterRepresentatives(valid, embs),
         partition       |-> partition]

---------------------------------------------------------------------------
(* The calls of a program that uses one LSHIndex object directly *)

\* The pipeline's constructor defaults that the index specification leaves alone.
NoConfig == [num_bits |-> 0, num_bands |-> 0, sim_threshold |-> <<0, 1>>,
             louvain |-> FALSE]

\* No temperature sweep is run.
NoSweep == [pc |-> "none"]

InitIndex ==
    /\ lsh_index = None
    /\ first_vec = <<>>
    /\ embeddings = <<>>
    /\ config = NoConfig
    /\ call = [op |-> "none"]
    /\ ret = None
    /\ sweep = NoSweep

\* index = LSHIndex(input_dim, num_bits, num_bands, seed)
Construct(input_dim, num_bits, num_bands, seed) ==
    /\ lsh_index = None
    /\ LET r == LSHIndex_init(input_dim, num_bits, num_bands, seed) IN
        /\ lsh_index' = IF r.kind = "LSHIndex" THEN r ELSE None
        /\ ret' = IF r.kind = "LSHIndex" THEN None ELSE r
    /\ call' = [op |-> "LSHIndex", num_bits |-> num_bits, num_bands |-> num_bands,
                seed |-> seed]
    /\ UNCHANGED <<first_vec, embeddings, config, sweep>>

\* index.add(vector, doc_id)
Add(vector, doc_id) ==
    /\ lsh_index.kind = "LSHIndex"
    /\ lsh_index' = LSHIndex_add(lsh_index, vector, doc_id)
    /\ first_vec' = IF doc_id \in DOMAIN first_vec THEN first_vec
                    ELSE (doc_id :> vector) @@ first_vec
    /\ call' = [op |-> "add", vector |-> vector, doc_id |-> doc_id]
    /\ ret' = None
    /\ UNCHANGED <<embeddings, config, sweep>>

\* index.get_candidates()
CallGetCandidates ==
    /\ lsh_index.kind = "LSHIndex"
    /\ call' = [op |-> "get_candidates"]
    /\ ret' = [kind |-> "set", value |-> GetCandidates(lsh_index)]
    /\ UNCHANGED <<lsh_index, first_vec, embeddings, config, sweep>>

\* index.get_candidate_groups()
CallGetCandidateGroups ==
    /\ lsh_index.kind = "LSHIndex"
    /\ call' = [op |-> "get_candidate_groups"]
    /\ ret' = [kind |-> "dict", value |-> GetCandidateGroups(lsh_index)]
    /\ UNCHANGED <<lsh_index, first_vec, embeddings, config, sweep>>

NextIndex ==
    \/ \E v \in Vectors, nb \in 1..MaxBits, nbands \in 0..MaxBands, seed \in Seeds :
          Construct(Len(v), nb, nbands, seed)
    \/ \E v \in Vectors, d \in DocIds : Add(v, d)
    \/ CallGetCandidates
    \/ CallGetCandidateGroups

SpecIndex == InitIndex /\ [][NextIndex]_vars

---------------------------------------------------------------------------
(* Properties of LSHIndex *)

IsIndex == lsh_index.kind = "LSHIndex"

\* The signature of the vector a document was first added with.
SigOf(d) == ComputeSignature(lsh_index, first_vec[d])

\* Row r (1-based) of band j (1-based) of a signature.
SliceBit(sig, j, r) == sig[(j - 1) * (lsh_index.num_bits \div lsh_index.num_bands) + r]

\* Documents a and b have equal slices of their signatures in band j.
SameBand(a, b, j) ==
    \A r \in 1..(lsh_index.num_bits \div lsh_index.num_bands) :
        SliceBit(SigOf(a), j, r) = SliceBit(SigOf(b), j, r)

\* The slice of d's signature in band j, as a bucket key.
SliceKey(d, j) ==
    [r \in 1..(lsh_index.num_bits \div lsh_index.num_bands) |-> SliceBit(SigOf(d), j, r)]

\* How many times d occurs in the buckets of band table j.
Occurrences(d, j) ==
    Cardinality({ <<k, i>> \in UNION { {k} \X DOMAIN lsh_index.band_tables[j][k]
                                        : k \in DOMAIN lsh_index.band_tables[j] }
                  : lsh_index.band_tables[j][k][i] = d })

\* C2: add(vector, doc_id) with a doc_id already in the index changes nothing of
\* the index (band_tables, doc_ids), whatever the vector.
C2_AddExistingIsNoOp ==
    [][ (call'.op = "add" /\ IsIndex /\ call'.doc_id \in lsh_index.doc_ids)
            => lsh_index' = lsh_index ]_vars

\* C2 witness: an add was made for an id already present, with a vector whose
\* signature differs from that of the first vector, and the buckets still hold
\* the id under the first signature.
C2_Witness ==
    /\ IsIndex
    /\ call.op = "add"
    /\ lsh_index.num_bands > 0 /\ lsh_index.num_bits > 0
    /\ call.doc_id \in DOMAIN first_vec
    /\ first_vec[call.doc_id] # call.vector
    /\ ComputeSignature(lsh_index, call.vector) # SigOf(call.doc_id)
    /\ Cardinality(lsh_index.doc_ids) >= 2

\* C3: get_candidates() holds the pair of two distinct indexed documents iff
\* their signatures agree on every row of at least one band.
C3_CandidatesIffBandMatch ==
    (call.op = "get_candidates") =>
        \A a \in lsh_index.doc_ids, b \in lsh_index.doc_ids :
            a # b =>
                ( (<<a, b>> \in ret.value \/ <<b, a>> \in ret.value)
                  <=> \E j \in 1..lsh_index.num_bands : SameBand(a, b, j) )

\* C3 witness: a query returned one pair and left out another pair of indexed
\* documents.
C3_Witness ==
    /\ call.op = "get_candidates"
    /\ lsh_index.num_bits > 0
    /\ \E a \in lsh_index.doc_ids, b \in lsh_index.doc_ids, c \in lsh_index.doc_ids :
          /\ a < b /\ c # a /\ c # b
          /\ <<a, b>> \in ret.value
          /\ SortedPair(a, c) \notin ret.value

\* C4: every pair (x, y) of get_candidates() has x < y, so no pair comes with
\* its reverse, no document is paired with itself, and a pair colliding in
\* several bands is one element.
C4_PairsCanonical ==
    (call.op = "get_candidates") => \A p \in ret.value : p[1] < p[2]

\* C4 witness: a returned pair whose documents share a bucket in two bands and
\* were inserted larger id first.
C4_Witness ==
    /\ call.op = "get_candidates"
    /\ lsh_index.num_bands >= 2
    /\ \E p \in ret.value :
          /\ \A j \in 1..2 : SameBand(p[1], p[2], j)
          /\ \E k \in DOMAIN lsh_index.band_tables[1] :
                LET b == lsh_index.band_tables[1][k] IN
                \E i \in DOMAIN b, i2 \in DOMAIN b : i < i2 /\ b[i] = p[2] /\ b[i2] = p[1]

\* num_bits is not divisible by num_bands (Python's % raises on a zero divisor).
NotDivisible(num_bits, num_bands) ==
    IF num_bands = 0 THEN TRUE ELSE num_bits % num_bands # 0

\* C5: a construction with num_bits not divisible by num_bands raises and
\* yields no index; every index that exists has a divisible configuration.
C5_IndivisibleConfigRejected ==
    /\ (call.op = "LSHIndex" /\ NotDivisible(call.num_bits, call.num_bands))
          => (ret.kind = "raise" /\ lsh_index = None)
    /\ IsIndex => ~NotDivisible(lsh_index.num_bits, lsh_index.num_bands)

\* C5 witness: a construction with a non-zero num_bands that does not divide
\* num_bits raised ValueError.
C5_Witness ==
    /\ call.op = "LSHIndex"
    /\ call.num_bands # 0
    /\ call.num_bits % call.num_bands # 0
    /\ ret = Raised("ValueError")

\* C6: every id of doc_ids occurs exactly once in each band table, in the
\* bucket keyed by that band's slice of its signature; buckets hold only ids
\* of doc_ids.
C6_BucketsMatchDocIds ==
    IsIndex =>
        /\ DOMAIN first_vec = lsh_index.doc_ids
        /\ \A j \in 1..lsh_index.num_bands :
              /\ \A d \in lsh_index.doc_ids :
                    /\ Occurrences(d, j) = 1
                    /\ SliceKey(d, j) \in DOMAIN lsh_index.band_tables[j]
                    /\ d \in Range(lsh_index.band_tables[j][SliceKey(d, j)])
              /\ \A k \in DOMAIN lsh_index.band_tables[j] :
                    Range(lsh_index.band_tables[j][k]) \subseteq lsh_index.doc_ids

\* C6 witness: an index of two bands holding three documents, with a band
\* table of more than one bucket.
C6_Witness ==
    /\ IsIndex
    /\ lsh_index.num_bands = 2
    /\ Cardinality(lsh_index.doc_ids) = 3
    /\ \E j \in 1..2 : Cardinality(DOMAIN lsh_index.band_tables[j]) >= 2

\* Documents a and b are together in some bucket of some band table.
ShareBucket(a, b) ==
    \E j \in 1..lsh_index.num_bands : \E k \in DOMAIN lsh_index.band_tables[j] :
        {a, b} \subseteq Range(lsh_index.band_tables[j][k])

\* C7: for every indexed document a, the set get_candidate_groups() gives for a
\* is the set of the other indexed documents sharing a bucket with a, never a
\* itself, and b is in it exactly when {a, b} is a pair of get_candidates().
C7_GroupsMatchCandidates ==
    (call.op = "get_candidate_groups") =>
        /\ DOMAIN ret.value \subseteq lsh_index.doc_ids
        /\ \A a \in lsh_index.doc_ids :
              /\ a \notin GroupOf(ret.value, a)
              /\ GroupOf(ret.value, a) =
                    { b \in lsh_index.doc_ids : b # a /\ ShareBucket(a, b) }
              /\ \A b \in DocIds :
                    b \in GroupOf(ret.value, a)
                        <=> (a # b /\ SortedPair(a, b) \in GetCandidates(lsh_index))

\* C7 witness: the groups of two documents that collide in two bands, next to
\* an indexed document that collides with nothing and has no key.
C7_Witness ==
    /\ call.op = "get_candidate_groups"
    /\ lsh_index.num_bands = 2
    /\ \E a \in lsh_index.doc_ids, b \in lsh_index.doc_ids :
          a # b /\ GroupOf(ret.value, a) = {b} /\ \A j \in 1..2 : SameBand(a, b, j)
    /\ \E a \in lsh_index.doc_ids : a \notin DOMAIN ret.value

---------------------------------------------------------------------------
(* build_similarity_graph as a function of its arguments *)

\* The dicts with keys S in increasing order and values in Vectors.
DictsOver(S) ==
    { [i \in 1..Cardinality(S) |-> <<SetToSeq(S)[i], f[SetToSeq(S)[i]]>>] : f \in [S -> Vectors] }

\* The candidate sets: at most MaxCands pairs of ids, in any order, ids that
\* are not keys of embeddings and pairs of an id with itself included.
CandidateSets == { c \in SUBSET (DocIds \X DocIds) : Cardinality(c) <= MaxCands }

InitGraph ==
    /\ lsh_index = None
    /\ first_vec = <<>>
    /\ embeddings \in UNION { DictsOver(S) : S \in SUBSET DocIds }
    /\ config \in { [NoConfig EXCEPT !.sim_threshold = t] : t \in Thresholds }
    /\ call = [op |-> "none"]
    /\ ret = None
    /\ sweep = NoSweep

\* G = build_similarity_graph(candidates, embeddings, threshold), applied once
\* to the arguments drawn.
CallBuildSimilarityGraph(candidates) ==
    /\ call.op = "none"
    /\ call' = [op |-> "build_similarity_graph", candidates |-> candidates]
    /\ ret' = BuildSimilarityGraph(candidates, embeddings, config.sim_threshold)
    /\ UNCHANGED <<lsh_index, first_vec, embeddings, config, sweep>>

NextGraph == \E c \in CandidateSets : CallBuildSimilarityGraph(c)

SpecGraph == InitGraph /\ [][NextGraph]_vars

\* C8: the node set of the graph is the key set of embeddings, whatever the
\* candidates: no node is lost, none is added, and no edge touches an id that
\* is not a key.
C8_NodesAreEmbeddingKeys ==
    (call.op = "build_similarity_graph") =>
        /\ Range(ret.nodes) = Keys(embeddings)
        /\ Len(ret.nodes) = Cardinality(Keys(embeddings))
        /\ \A e \in DOMAIN ret.edges : e \subseteq Keys(embeddings)

\* C8 witness: a candidate pair named an id absent from embeddings, at the
\* threshold 0 that a zero similarity passes, and the nodes stayed isolated.
C8_Witness ==
    /\ call.op = "build_similarity_graph"
    /\ config.sim_threshold = <<0, 1>>
    /\ Cardinality(Keys(embeddings)) >= 2
    /\ \E p \in call.candidates : p[1] \in Keys(embeddings) /\ p[2] \notin Keys(embeddings)
    /\ DOMAIN ret.edges = {}

\* The similarity the claim defines for two vectors is at least tn / td.
ClaimSimAtLeast(u, v, tn, td) ==
    IF Dot(u, u) = 0 \/ Dot(v, v) = 0
    THEN 0 >= tn
    ELSE Dot(u, v) * td >= tn * Norm(u) * Norm(v)

\* The rational w = <<n, d>> equals the similarity the claim defines.
ClaimSimEquals(u, v, w) ==
    IF Dot(u, u) = 0 \/ Dot(v, v) = 0
    THEN w[1] = 0
    ELSE w[1] * Norm(u) * Norm(v) = Dot(u, v) * w[2]

\* C9: for every candidate pair with both ids in embeddings the edge exists
\* iff the similarity (cosine, or 0 when a norm is zero) is >= threshold, and
\* the weight of the edge is that similarity.
C9_EdgeIffSimAtLeastThreshold ==
    (call.op = "build_similarity_graph") =>
        \A p \in call.candidates :
            (p[1] \in Keys(embeddings) /\ p[2] \in Keys(embeddings)) =>
                LET u == Get(embeddings, p[1])
                    v == Get(embeddings, p[2])
                    e == {p[1], p[2]}
                IN  /\ e \in DOMAIN ret.edges
                        <=> ClaimSimAtLeast(u, v, config.sim_threshold[1], config.sim_threshold[2])
                    /\ e \in DOMAIN ret.edges => ClaimSimEquals(u, v, ret.edges[e])

\* C9 witness: one candidate pair whose similarity equals a positive threshold
\* got its edge, and a pair with a zero vector got none.
C9_Witness ==
    /\ call.op = "build_similarity_graph"
    /\ config.sim_threshold[1] > 0
    /\ \E p \in call.candidates :
          /\ p[1] # p[2]
          /\ {p[1], p[2]} \in DOMAIN ret.edges
          /\ ret.edges[{p[1], p[2]}][1] * config.sim_threshold[2]
                = config.sim_threshold[1] * ret.edges[{p[1], p[2]}][2]
    /\ \E p \in call.candidates :
          /\ p[1] \in Keys(embeddings) /\ p[2] \in Keys(embeddings)
          /\ Get(embeddings, p[1]) = <<0, 0>>
          /\ {p[1], p[2]} \notin DOMAIN ret.edges

---------------------------------------------------------------------------
(* The calls of a program that uses one LSHEvaluationPipeline *)

\* The vectors encode_responses gives the documents of a pipeline.
PipelineVectors == { <<4, 3>>, <<3, 4>> }

\* The pairs (num_bits, num_bands) a pipeline is constructed with.
PipelineShapes == { <<2, 1>>, <<2, 2>>, <<1, 2>> }

\* The sim_threshold a pipeline is constructed with: the default 0.7, which
\* the two PipelineVectors pass (their cosine is 24/25), and 0.99, which only
\* equal vectors pass.
PipelineThresholds == { <<7, 10>>, <<99, 100>> }

\* LSHEvaluationPipeline(num_bits, num_bands, sim_threshold); louvain tells
\* whether the import of community_louvain succeeded.
Init ==
    /\ lsh_index = None
    /\ first_vec = <<>>
    /\ embeddings = <<>>
    /\ config \in { [num_bits |-> sh[1], num_bands |-> sh[2], sim_threshold |-> t,
                     louvain |-> l] :
                       sh \in PipelineShapes, t \in PipelineThresholds, l \in BOOLEAN }
    /\ call = [op |-> "none"]
    /\ ret = None
    /\ sweep = NoSweep

\* The loop of lines 54-55 of ingest_data from item n on.
RECURSIVE StoreAll(_, _, _)
StoreAll(embs, data, n) ==
    IF n > Len(data) THEN embs
    ELSE StoreAll(Put(embs, data[n].id, data[n].emb), data, n + 1)

\* pipeline.ingest_data(data): data is a list of items; emb is the vector
\* encode_responses gives the item's text.
IngestData(data) ==
    /\ embeddings' = StoreAll(embeddings, data, 1)
    /\ call' = [op |-> "ingest_data"]
    /\ ret' = None
    /\ UNCHANGED <<lsh_index, first_vec, config, sweep>>

\* The vectors the documents of an index were added with.
FirstVecOf(embs) == [d \in Keys(embs) |-> Get(embs, d)]

\* pipeline.build_index()
CallBuildIndex ==
    LET r == BuildIndex(embeddings, config) IN
    /\ lsh_index' = IF r.kind = "LSHIndex" THEN r ELSE lsh_index
    /\ first_vec' = IF r.kind = "LSHIndex" THEN FirstVecOf(embeddings) ELSE first_vec
    /\ call' = [op |-> "build_index"]
    /\ ret' = IF r.kind = "LSHIndex" THEN None ELSE r
    /\ UNCHANGED <<embeddings, config, sweep>>

\* pipeline.run_clustering(method = "density")
RunClusteringDensity ==
    /\ \E partition \in RunDensityClustering(embeddings) :
          ret' = IF partition.kind = "raise" THEN partition
                 ELSE FormatResult(partition.value, embeddings, TRUE)
    /\ call' = [op |-> "run_clustering", method |-> "density"]
    /\ UNCHANGED <<lsh_index, first_vec, embeddings, config, sweep>>

\* pipeline.run_clustering(method = "lsh"); the call record keeps the local G.
RunClusteringLsh ==
    LET idx == IF lsh_index = None THEN BuildIndex(embeddings, config) ELSE lsh_index IN
    IF idx.kind # "LSHIndex"
    THEN /\ ret' = idx
         /\ call' = [op |-> "run_clustering", method |-> "lsh"]
         /\ UNCHANGED <<lsh_index, first_vec, embeddings, config, sweep>>
    ELSE LET candidates == GetCandidates(idx)
             G == BuildSimilarityGraph(candidates, embeddings, config.sim_threshold)
         IN  /\ lsh_index' = idx
             /\ first_vec' = IF lsh_index = None THEN FirstVecOf(embeddings) ELSE first_vec
             /\ \E partition \in ClusterGraph(G, config.louvain) :
                   ret' = FormatResult(partition, embeddings, FALSE)
             /\ call' = [op |-> "run_clustering", method |-> "lsh", G |-> G]
             /\ UNCHANGED <<embeddings, config, sweep>>

\* Batches of one item: a longer batch acts on the pipeline as the same items
\* ingested one after the other.
Next ==
    \/ \E d \in PipelineDocIds, v \in PipelineVectors : IngestData(<<[id |-> d, emb |-> v]>>)
    \/ CallBuildIndex
    \/ RunClusteringDensity
    \/ RunClusteringLsh

Spec == Init /\ [][Next]_vars

Returned == call.op = "run_clustering" /\ ret.kind = "result"

\* How many times doc id d is listed in the lists of clusters.
Listed(clusters, d) ==
    Cardinality({ <<i, k>> \in UNION { {i} \X DOMAIN clusters[i][2] : i \in DOMAIN clusters }
                  : clusters[i][2][k] = d })

\* C1: the partition run_clustering returns maps exactly the ingested ids, each
\* once, and every ingested id is listed exactly once in the lists of clusters
\* (a numbered cluster or "noise"), which list nothing else.
C1_PartitionTotal ==
    Returned =>
        /\ Keys(ret.partition) = Keys(embeddings)
        /\ Len(ret.partition) = Cardinality(Keys(embeddings))
        /\ \A d \in Keys(embeddings) : Listed(ret.clusters, d) = 1
        /\ \A i \in DOMAIN ret.clusters : Range(ret.clusters[i][2]) \subseteq Keys(embeddings)
        /\ \A i, j \in DOMAIN ret.clusters :
              ret.clusters[i][1] = ret.clusters[j][1] => i = j

\* C1 witness: an "lsh" run over two documents, one of them ingested after the
\* index was built and unknown to it, returned a partition.
C1_Witness ==
    /\ Returned
    /\ call.method = "lsh"
    /\ Cardinality(Keys(embeddings)) = 2
    /\ \E d \in Keys(embeddings) : d \notin lsh_index.doc_ids

\* Edge {u, v} is in the graph G of the last "lsh" run.
HasEdge(u, v) == {u, v} \in DOMAIN call.G.edges

\* cosine(u, v) >= sim_threshold on the current embeddings.
Similar(u, v) ==
    ClaimSimAtLeast(Get(embeddings, u), Get(embeddings, v),
                    config.sim_threshold[1], config.sim_threshold[2])

\* C10 as claimed: in the graph of the LSH path, two distinct documents have
\* an edge iff their cosine similarity is >= sim_threshold.
C10_Original ==
    (Returned /\ call.method = "lsh") =>
        \A u \in Keys(embeddings), v \in Keys(embeddings) :
            u # v => (HasEdge(u, v) <=> Similar(u, v))

\* C10 amended: two distinct documents have an edge iff they are a candidate
\* pair of the index (both were added to it and the signatures they were added
\* with agree on a whole band) and their cosine similarity is >= sim_threshold.
C10_EdgeIffCandidateAndSimilar ==
    (Returned /\ call.method = "lsh") =>
        \A u \in Keys(embeddings), v \in Keys(embeddings) :
            u # v =>
                ( HasEdge(u, v) <=>
                    /\ {u, v} \subseteq lsh_index.doc_ids
                    /\ \E j \in 1..lsh_index.num_bands : SameBand(u, v, j)
                    /\ Similar(u, v) )

\* C10 witness: an "lsh" run whose graph has an edge between two documents.
C10_Witness ==
    /\ Returned
    /\ call.method = "lsh"
    /\ \E u \in Keys(embeddings), v \in Keys(embeddings) : u # v /\ HasEdge(u, v)

\* The labels of a partition dict.
LabelsOf(partition) == { partition[i][2] : i \in DOMAIN partition }

\* C11: in the result of run_clustering, representatives has exactly one entry
\* for each non-negative label of the partition and none for -1; each
\* representative is a member of the cluster it represents; num_clusters is
\* the number of representatives.
C11_RepresentativesPerCluster ==
    Returned =>
        /\ Keys(ret.representatives) = LabelsOf(ret.partition) \ {-1}
        /\ Len(ret.representatives) = Cardinality(LabelsOf(ret.partition) \ {-1})
        /\ \A i \in DOMAIN ret.representatives :
              ret.representatives[i][2]
                 \in Range(Members(ret.partition, ret.representatives[i][1]))
        /\ ret.num_clusters = Len(ret.representatives)

\* C11 witness: a "density" run returned a partition with a noise document
\* and a numbered cluster.
C11_Witness ==
    /\ Returned
    /\ call.method = "density"
    /\ LabelsOf(ret.partition) = {-1, 0}
    /\ Len(ret.representatives) = 1

\* The density partitioner labelled every document -1 in the run that
\* returned.
AllNoise ==
    /\ call.op = "run_clustering" /\ call.method = "density"
    /\ ret.kind = "result"
    /\ LabelsOf(ret.partition) = {-1}

\* C16: when the density partitioner labels every document -1,
\* run_clustering(method = "density") returns a result with num_clusters = 0,
\* no representatives, and all the documents under the key "noise"; a run
\* whose partitioner returned labels returns a result, never an exception.
C16_AllNoiseIsValid ==
    (call.op = "run_clustering" /\ call.method = "density" /\ embeddings # <<>>) =>
        /\ ret.kind = "result"
        /\ AllNoise =>
              /\ ret.num_clusters = 0
              /\ ret.representatives = <<>>
              /\ Len(ret.clusters) = 1
              /\ ret.clusters[1][1] = ClusterKey(-1)
              /\ Range(ret.clusters[1][2]) = Keys(embeddings)
              /\ Len(ret.clusters[1][2]) = Cardinality(Keys(embeddings))

\* C16 witness: a "density" run over two documents labelled both -1.
C16_Witness ==
    /\ AllNoise
    /\ Len(ret.partition) = 2

\* The step is a call of build_index, or of run_clustering(method = "lsh")
\* while the pipeline has no index.
IndexBuildRequested ==
    /\ lsh_index = None
    /\ \/ call'.op = "build_index"
       \/ call'.op = "run_clustering" /\ call'.method = "lsh"

\* C23: an index build requested while no embeddings are ingested raises an
\* error and leaves the pipeline without an index; one requested on a
\* pipeline without an index after ingest_data, with num_bits divisible by
\* num_bands, stores an index of all the ingested documents.
C23_EmptyBuildFails ==
    [][ /\ (IndexBuildRequested /\ embeddings = <<>>) =>
              /\ ret'.kind = "raise" /\ ret'.error = "ValueError"
              /\ lsh_index' = None
              /\ embeddings' = <<>>
        /\ (IndexBuildRequested /\ embeddings # <<>>
               /\ ~NotDivisible(config.num_bits, config.num_bands)) =>
              /\ lsh_index'.kind = "LSHIndex"
              /\ lsh_index'.doc_ids = Keys(embeddings)
              /\ ret'.kind # "raise" ]_vars

\* C23 witness: build_index was called with no embeddings ingested and raised.
C23_Witness ==
    /\ call.op = "build_index"
    /\ embeddings = <<>>
    /\ ret.kind = "raise"
    /\ lsh_index = None

\* C28: after any sequence of ingest_data and run_clustering(method = "lsh")
\* calls, the index used for candidate retrieval holds every document of
\* embeddings, added with the document's current embedding.
C28_IndexCoversEmbeddings ==
    (Returned /\ call.method = "lsh") =>
        /\ lsh_index.doc_ids = Keys(embeddings)
        /\ \A d \in Keys(embeddings) : first_vec[d] = Get(embeddings, d)

---------------------------------------------------------------------------
(* The calls of a program that selects representatives of a partition *)

\* At most this many documents are in the partition of a call.
MaxRepDocs == 3

\* The labels of the partitions drawn: noise and two clusters.
RepLabels == { -1, 0, 1 }

\* The partition dicts over the ids S: the ids in any insertion order, each
\* with any label.
PartitionsOver(S) ==
    { [i \in 1..Cardinality(S) |-> <<p[i], f[p[i]]>>] : p \in Perms(S), f \in [S -> RepLabels] }

InitReps ==
    /\ lsh_index = None
    /\ first_vec = <<>>
    /\ embeddings \in UNION { DictsOver(1..n) : n \in 0..MaxRepDocs }
    /\ config = NoConfig
    /\ call = [op |-> "none"]
    /\ ret = None
    /\ sweep = NoSweep

\* get_cluster_representatives(partition, embeddings), applied once to the
\* arguments drawn; every id of the partition has an embedding.
CallGetClusterRepresentatives ==
    /\ call.op = "none"
    /\ \E partition \in PartitionsOver(Keys(embeddings)) :
          /\ call' = [op |-> "get_cluster_representatives", partition |-> partition]
          /\ ret' = [kind |-> "dict",
                     value |-> GetClusterRepresentatives(partition, embeddings)]
    /\ UNCHANGED <<lsh_index, first_vec, embeddings, config, sweep>>

NextReps == CallGetClusterRepresentatives

SpecReps == InitReps /\ [][NextReps]_vars

RepsReturned == call.op = "get_cluster_representatives"

\* C12: for a partition that contains -1 labels, the mapping
\* get_cluster_representatives returns has no key -1 (noise has no
\* representative).
C12_NoNoiseRepresentative ==
    RepsReturned => -1 \notin Keys(ret.value)

\* The squared Euclidean distance of v to the mean of the vectors vs, times
\* Len(vs)^2.
ScaledSqDistToMean(v, vs) ==
    LET n == Len(vs)
    IN  SumSeq([c \in 1..Len(v) |->
                  (n * v[c] - SumSeq([k \in 1..n |-> vs[k][c]]))
                * (n * v[c] - SumSeq([k \in 1..n |-> vs[k][c]]))])

\* C13: for each cluster, the representative returned is the sole member of a
\* cluster of one, and otherwise the first member, in the partition's order,
\* whose Euclidean distance to the mean of the members' embeddings is minimal.
C13_FirstClosestMember ==
    RepsReturned =>
        \A k \in DOMAIN ret.value :
            LET members == Members(call.partition, ret.value[k][1])
                vs      == [i \in DOMAIN members |-> Get(embeddings, members[i])]
                D(i)    == ScaledSqDistToMean(vs[i], vs)
            IN  IF Len(members) = 1 THEN ret.value[k][2] = members[1]
                ELSE \E i \in DOMAIN members :
                        /\ ret.value[k][2] = members[i]
                        /\ \A j \in DOMAIN members : D(i) <= D(j)
                        /\ \A j \in 1..(i - 1) : D(j) > D(i)

\* C13 witness: a cluster of three members whose first member is farther from
\* the mean than the two others, which are equally far; the second was
\* returned, though the third has the smaller id.
C13_Witness ==
    /\ RepsReturned
    /\ \E k \in DOMAIN ret.value :
          LET members == Members(call.partition, ret.value[k][1])
              vs      == [i \in DOMAIN members |-> Get(embeddings, members[i])]
          IN  /\ Len(members) = 3
              /\ ScaledSqDistToMean(vs[1], vs) > ScaledSqDistToMean(vs[2], vs)
              /\ ScaledSqDistToMean(vs[2], vs) = ScaledSqDistToMean(vs[3], vs)
              /\ ret.value[k][2] = members[2]
              /\ members[2] > members[3]

---------------------------------------------------------------------------
(* The calls of a program that clusters a graph with cluster_graph *)

\* At most this many nodes are in the graph of a call.
MaxGraphNodes == 3

\* The graphs over the nodes 1..n: the nodes in any insertion order, any set
\* of edges between two distinct nodes, every edge of weight 1.
GraphsOver(n) ==
    { [kind  |-> "Graph",
       nodes |-> p,
       edges |-> [e \in E |-> <<1, 1>>]] :
         p \in Perms(1..n),
         E \in SUBSET UNION { { {u, v} : v \in (u + 1)..n } : u \in 1..n } }

\* louvain tells whether the import of community_louvain succeeded.
InitCluster ==
    /\ lsh_index = None
    /\ first_vec = <<>>
    /\ embeddings = <<>>
    /\ config \in { [NoConfig EXCEPT !.louvain = l] : l \in BOOLEAN }
    /\ call = [op |-> "none"]
    /\ ret = None
    /\ sweep = NoSweep

\* cluster_graph(G), applied once to the graph drawn.
CallClusterGraph ==
    /\ call.op = "none"
    /\ \E n \in 0..MaxGraphNodes : \E G \in GraphsOver(n) :
          /\ call' = [op |-> "cluster_graph", G |-> G]
          /\ \E partition \in ClusterGraph(G, config.louvain) :
                ret' = [kind |-> "dict", value |-> partition]
    /\ UNCHANGED <<lsh_index, first_vec, embeddings, config, sweep>>

NextCluster == CallClusterGraph

SpecCluster == InitCluster /\ [][NextCluster]_vars

\* cluster_graph returned from its fallback branch.
FallbackReturned == call.op = "cluster_graph" /\ ~config.louvain

\* A path of at most k edges of G joins u to v.
RECURSIVE PathWithin(_, _, _, _)
PathWithin(G, u, v, k) ==
    \/ u = v
    \/ /\ k > 0
       /\ \E w \in Range(G.nodes) :
             {u, w} \in DOMAIN G.edges /\ PathWithin(G, w, v, k - 1)

\* C14: when the modularity optimizer is unavailable, cluster_graph gives
\* every node of the graph exactly one label, two nodes the same label iff a
\* path of edges joins them, and the labels are 0..k-1 for k components.
C14_FallbackLabelsComponents ==
    FallbackReturned =>
        LET G     == call.G
            nodes == Range(G.nodes)
        IN  /\ Keys(ret.value) = nodes
            /\ Len(ret.value) = Cardinality(nodes)
            /\ \A u \in nodes, v \in nodes :
                  (Get(ret.value, u) = Get(ret.value, v))
                     <=> PathWithin(G, u, v, Cardinality(nodes))
            /\ LabelsOf(ret.value) = 0..(Cardinality(LabelsOf(ret.value)) - 1)

\* C14 witness: the fallback labelled a graph of three nodes in which two
\* nodes without an edge between them are joined by a path, visiting first a
\* node at the end of the path.
C14_Witness ==
    /\ FallbackReturned
    /\ Len(call.G.nodes) = 3
    /\ DOMAIN call.G.edges = { {call.G.nodes[1], call.G.nodes[3]},
                               {call.G.nodes[3], call.G.nodes[2]} }
    /\ LabelsOf(ret.value) = {0}

\* C15: the value cluster_graph returns from its fallback branch carries a
\* signal of the fallback: it is not a value the modularity branch returns for
\* the same graph.
C15_FallbackSignalled ==
    FallbackReturned =>
        ret \notin { [kind |-> "dict", value |-> partition] :
                        partition \in ClusterGraph(call.G, TRUE) }

---------------------------------------------------------------------------
(* temperature_sweep.py : compute_centroids, greedy_centroid_match *)

\* A centroid is the real vector vec / sqrt(nsq), kept as the integer vector
\* vec and the integer nsq > 0, so that unit vectors are exact.
Centroid(vec, nsq) == [vec |-> vec, nsq |-> nsq]

\* The sum of the embeddings of the members.
VecSum(members, embs) ==
    << SumSeq([k \in DOMAIN members |-> Get(embs, members[k])[1]]),
       SumSeq([k \in DOMAIN members |-> Get(embs, members[k])[2]]) >>

\* compute_centroids without the division of line 240: the centroid of a
\* cluster is the mean of its members.
ComputeCentroids_NoNormalise(embs, partition) ==
    LET valid  == SelectSeq(partition, LAMBDA e : e[2] # -1)
        labels == FirstOccurrences([i \in DOMAIN valid |-> valid[i][2]])
    IN  [centroids |-> [i \in DOMAIN labels |->
                          LET members == Members(partition, labels[i])
                          IN  <<labels[i], Centroid(VecSum(members, embs),
                                                    Len(members) * Len(members))>>],
         sizes     |-> [i \in DOMAIN labels |->
                          <<labels[i], Len(Members(partition, labels[i]))>>]]

\* compute_centroids without the test of lines 228-229: the label -1 is
\* treated as a cluster.
ComputeCentroids_KeepNoise(embs, partition) ==
    LET labels == FirstOccurrences([i \in DOMAIN partition |-> partition[i][2]])
    IN  [centroids |-> [i \in DOMAIN labels |->
                          LET s == VecSum(Members(partition, labels[i]), embs)
                          IN  <<labels[i],
                                IF Dot(s, s) = 0 THEN Centroid(s, 1)
                                ELSE Centroid(s, Dot(s, s))>>],
         sizes     |-> [i \in DOMAIN labels |->
                          <<labels[i], Len(Members(partition, labels[i]))>>]]

\* compute_centroids(embeddings, partition): the dicts centroids and sizes,
\* keyed by the labels other than -1 in the order they first occur.  With s
\* the sum of the n members, the mean is s / n and its norm |s| / n: the
\* centroid is the zero vector when s is zero and s / |s| otherwise.
ComputeCentroids(embs, partition) ==
    LET valid  == SelectSeq(partition, LAMBDA e : e[2] # -1)
        labels == FirstOccurrences([i \in DOMAIN valid |-> valid[i][2]])
    IN  [centroids |-> [i \in DOMAIN labels |->
                          LET s == VecSum(Members(partition, labels[i]), embs)
                          IN  <<labels[i],
                                IF Dot(s, s) = 0 THEN Centroid(s, 1)
                                ELSE Centroid(s, Dot(s, s))>>],
         sizes     |-> [i \in DOMAIN labels |->
                          <<labels[i], Len(Members(partition, labels[i]))>>]]

\* float(np.dot(b_vec, t_vec)): the real number num / sqrt(densq), kept as
\* <<num, densq>>.
DotSim(b_vec, t_vec) == << Dot(b_vec.vec, t_vec.vec), b_vec.nsq * t_vec.nsq >>

\* |n| * n
SignedSquare(n) == IF n < 0 THEN 0 - n * n ELSE n * n

\* x < y for two such reals: t |-> sign(t) * t^2 is increasing.
SimLess(x, y) == SignedSquare(x[1]) * y[2] < SignedSquare(y[1]) * x[2]

\* Lines 317-321: the list pairs, one entry [sim, b_id, t_id] for each
\* baseline centroid, in dict order, and each target centroid, in dict order.
AllPairs(base_centroids, target_centroids) ==
    LET nt == Len(target_centroids)
    IN  [k \in 1..(Len(base_centroids) * nt) |->
            LET b == base_centroids[((k - 1) \div nt) + 1]
                t == target_centroids[((k - 1) % nt) + 1]
            IN  [sim |-> DotSim(b[2], t[2]), b_id |-> b[1], t_id |-> t[1]]]

\* The list left as it was built.
SortPairs_Unsorted(pairs) == pairs

\* pairs.sort(reverse=True, key=lambda x: x[0]): the sort is stable, so
\* entries of equal sim keep their order.  Each entry of pairs, in order, is
\* placed behind the entries placed so far whose sim is not smaller.
RECURSIVE SortPairs(_)
SortPairs(pairs) ==
    IF pairs = <<>> THEN <<>>
    ELSE LET front == SortPairs(SubSeq(pairs, 1, Len(pairs) - 1))
             x     == pairs[Len(pairs)]
         IN  SelectSeq(front, LAMBDA y : ~SimLess(y.sim, x.sim))
               \o <<x>>
               \o SelectSeq(front, LAMBDA y : SimLess(y.sim, x.sim))

\* The loop of lines 329-334 skipping an entry only when both its clusters
\* are matched already.
RECURSIVE GreedyLoop_BothMatched(_, _, _, _, _)
GreedyLoop_BothMatched(pairs, i, matched_base, matched_target, matches) ==
    IF i > Len(pairs) THEN matches
    ELSE IF pairs[i].b_id \in matched_base /\ pairs[i].t_id \in matched_target
         THEN GreedyLoop_BothMatched(pairs, i + 1, matched_base, matched_target, matches)
         ELSE GreedyLoop_BothMatched(pairs, i + 1,
                         matched_base \cup {pairs[i].b_id},
                         matched_target \cup {pairs[i].t_id},
                         Append(matches, <<pairs[i].b_id, pairs[i].t_id, pairs[i].sim>>))

\* The loop of lines 329-334 from entry i on: the list matches at its end.
RECURSIVE GreedyLoop(_, _, _, _, _)
GreedyLoop(pairs, i, matched_base, matched_target, matches) ==
    IF i > Len(pairs) THEN matches
    ELSE IF pairs[i].b_id \in matched_base \/ pairs[i].t_id \in matched_target
         THEN GreedyLoop(pairs, i + 1, matched_base, matched_target, matches)
         ELSE GreedyLoop(pairs, i + 1,
                         matched_base \cup {pairs[i].b_id},
                         matched_target \cup {pairs[i].t_id},
                         Append(matches, <<pairs[i].b_id, pairs[i].t_id, pairs[i].sim>>))

\* A float that is the sum of the reals of terms divided by count.
Float(terms, count) == [kind |-> "float", terms |-> terms, count |-> count]

\* statistics.mean(values)
Mean(values) == Float(values, Len(values))

\* greedy_centroid_match(base_centroids, target_centroids): the tuple
\* (avg_similarity, matches, unmatched_base, unmatched_target).
GreedyCentroidMatch(base_centroids, target_centroids) ==
    IF base_centroids = <<>> \/ target_centroids = <<>>
    THEN [kind |-> "match", avg_similarity |-> None, matches |-> <<>>,
          unmatched_base |-> Keys(base_centroids),
          unmatched_target |-> Keys(target_centroids)]
    ELSE LET pairs   == SortPairs(AllPairs(base_centroids, target_centroids))
             matches == GreedyLoop(pairs, 1, {}, {}, <<>>) \o <<>>
         IN  [kind |-> "match",
              avg_similarity   |-> IF matches # <<>>
                                   THEN Mean([i \in DOMAIN matches |-> matches[i][3]])
                                   ELSE None,
              matches          |-> matches,
              unmatched_base   |-> Keys(base_centroids)
                                     \ { matches[i][1] : i \in DOMAIN matches },
              unmatched_target |-> Keys(target_centroids)
                                     \ { matches[i][2] : i \in DOMAIN matches }]

\* Lines 581-589 of run: the drift row of one target temperature, from the
\* tuple greedy_centroid_match returned (the temperature itself left out).
DriftRow(match) ==
    [kind |-> "row",
     avg_centroid_similarity |-> IF match.avg_similarity.kind # "None"
                                 THEN match.avg_similarity
                                 ELSE Float(<<>>, 1),
     matched_clusters   |-> Len(match.matches),
     unmatched_baseline |-> Cardinality(match.unmatched_base),
     unmatched_target   |-> Cardinality(match.unmatched_target)]

\* Line 598 with "<=" for "<".
TempOnlyBelow_OrEqual(max_sim, threshold) ==
    ~SimLess(<<threshold[1], threshold[2] * threshold[2]>>, max_sim)

\* Line 598: max_sim < args.temp_only_similarity_threshold, the threshold
\* being the rational threshold[1] / threshold[2].
TempOnlyBelow(max_sim, threshold) ==
    SimLess(max_sim, <<threshold[1], threshold[2] * threshold[2]>>)

\* Lines 593-596: max_sim of a target centroid, 0.0 when the baseline has no
\* centroid, else the largest of its dot products with the baseline centroids.
MaxSim(c_vec, baseline_centroids) ==
    IF baseline_centroids = <<>> THEN <<0, 1>>
    ELSE LET sims == { DotSim(c_vec, baseline_centroids[i][2]) :
                         i \in DOMAIN baseline_centroids }
         IN  CHOOSE x \in sims : \A y \in sims : ~SimLess(x, y)

\* Lines 591-606 of run: the rows added to temp_only_rows for one target
\* temperature, in the order of the target centroids (the temperature itself
\* left out).
TempOnlyRows(baseline_centroids, target_centroids, cluster_sizes, threshold) ==
    LET flagged == SelectSeq(target_centroids,
                     LAMBDA c : TempOnlyBelow(MaxSim(c[2], baseline_centroids), threshold))
    IN  [i \in DOMAIN flagged |->
           [cluster_id |-> flagged[i][1],
            size       |-> Get(cluster_sizes, flagged[i][1]),
            max_similarity_to_baseline |-> MaxSim(flagged[i][2], baseline_centroids)]]

\* Lines 277-294: the TempSeedResult of one seed, for the partition
\* run_density_clustering returned (the temperature left out).  noise_ratio
\* is the rational <<noise_count, len(labels)>>.
TempSeedResult(embs, partition, seed) ==
    LET doc_ids == [i \in DOMAIN embs |-> embs[i][1]]
        labels  == [i \in DOMAIN doc_ids |-> Get(partition, doc_ids[i])]
        cc      == ComputeCentroids(embs, partition)
    IN  [seed          |-> seed,
         doc_ids       |-> doc_ids,
         labels        |-> labels,
         partition     |-> partition,
         num_clusters  |-> Cardinality(Range(labels))
                             - (IF -1 \in Range(labels) THEN 1 ELSE 0),
         noise_ratio   |-> << Len(SelectSeq(labels, LAMBDA v : v = -1)), Len(labels) >>,
         centroids     |-> cc.centroids,
         cluster_sizes |-> cc.sizes]

\* run_temp_seed_clustering(items, seeds, density) from seed i on: the lists
\* of results it may return, one result per seed, the partition of each seed
\* being any that run_density_clustering returns.  embs are the embeddings
\* encode_responses gives the items, which are not empty.
RECURSIVE RunTempSeedClustering(_, _, _)
RunTempSeedClustering(embs, seeds, i) ==
    IF i > Len(seeds) THEN { <<>> }
    ELSE { <<TempSeedResult(embs, p.value, seeds[i])>> \o rest :
             p \in RunDensityClustering(embs),
             rest \in RunTempSeedClustering(embs, seeds, i + 1) }

---------------------------------------------------------------------------
(* The calls of a program that matches two centroid dicts *)

\* At most this many clusters are in a centroid dict of a call.
MaxClusters == 2

\* The vectors of the centroids drawn.
MatchVectors == { <<1, 0>>, <<1, 1>>, <<-1, 0>> }

\* The centroid dicts with k clusters: the labels 0..k-1 in any insertion
\* order, each with any of the vectors.
CentroidDicts(k) ==
    { [i \in 1..k |-> <<p[i], Centroid(f[p[i]], 1)>>] :
        p \in Perms(0..(k - 1)), f \in [0..(k - 1) -> MatchVectors] }

InitMatch ==
    /\ lsh_index = None
    /\ first_vec = <<>>
    /\ embeddings = <<>>
    /\ config = NoConfig
    /\ call = [op |-> "none"]
    /\ ret = None
    /\ sweep = NoSweep

\* greedy_centroid_match(base_centroids, target_centroids), applied once to
\* the arguments drawn.
CallGreedyCentroidMatch ==
    /\ call.op = "none"
    /\ \E kb \in 0..MaxClusters, kt \in 0..MaxClusters :
          \E base \in CentroidDicts(kb), target \in CentroidDicts(kt) :
             /\ call' = [op |-> "greedy_centroid_match", base |-> base, target |-> target]
             /\ ret' = GreedyCentroidMatch(base, target)
    /\ UNCHANGED <<lsh_index, first_vec, embeddings, config, sweep>>

\* At most this many documents are in the batch of a temperature.
MaxSweepDocs == 2

\* The vectors encode_responses gives the documents of a sweep.
SweepVectors == { <<1, 0>>, <<-1, 0>>, <<1, 1>> }

\* The analysis-seed runs of a temperature over n documents: the embeddings
\* of its batch, and the partition run_density_clustering returned for them.
SeedRuns(n) ==
    { [embeddings |-> [i \in 1..n |-> <<i, f[i]>>],
       partition  |-> [i \in 1..n |-> <<i, l[i]>>]] :
         f \in [1..n -> SweepVectors], l \in CanonicalLabels(n, TRUE) }

\* The values of --temp-only-similarity-threshold: the default 0.85, and 1.0,
\* the similarity of a centroid to itself.
TempOnlyThresholds == { <<17, 20>>, <<1, 1>> }

\* One turn of the loop of lines 574-606 of run: the centroids of the
\* baseline run and of the target run (line 280) are matched, the drift row
\* of the target temperature is built, and the target clusters far from every
\* baseline centroid are added to temp_only_rows.  The call record keeps the
\* two runs, their centroids, the tuple greedy_centroid_match returned and
\* the rows added to temp_only_rows.
DriftRowStep ==
    /\ call.op = "none"
    /\ \E nb \in 1..MaxSweepDocs, nt \in 1..MaxSweepDocs, threshold \in TempOnlyThresholds :
          \E baseline_run \in SeedRuns(nb), target_run \in SeedRuns(nt) :
             LET base   == ComputeCentroids(baseline_run.embeddings,
                                            baseline_run.partition).centroids
                 tc     == ComputeCentroids(target_run.embeddings,
                                            target_run.partition)
                 target == tc.centroids
                 match  == GreedyCentroidMatch(base, target)
             IN  /\ call' = [op |-> "drift_row",
                             baseline_run |-> baseline_run, target_run |-> target_run,
                             base |-> base, target |-> target, match |-> match,
                             threshold |-> threshold,
                             temp_only_rows |-> TempOnlyRows(base, target, tc.sizes, threshold)]
                 /\ ret' = DriftRow(match)
    /\ UNCHANGED <<lsh_index, first_vec, embeddings, config, sweep>>

\* The values of --seeds after parse_int_list, and the empty list.
SeedLists == { <<>>, <<42>>, <<42, 43>>, <<43, 42>>, <<42, 42>> }

\* run_temp_seed_clustering(items, seeds, density), applied once to the
\* arguments drawn.
CallRunTempSeedClustering ==
    /\ call.op = "none"
    /\ \E n \in 1..MaxSweepDocs, seeds \in SeedLists :
          \E f \in [1..n -> SweepVectors] :
             LET embs == [i \in 1..n |-> <<i, f[i]>>]
             IN  /\ call' = [op |-> "run_temp_seed_clustering",
                             embeddings |-> embs, seeds |-> seeds]
                 /\ \E results \in RunTempSeedClustering(embs, seeds, 1) :
                       ret' = [kind |-> "results", value |-> results]
    /\ UNCHANGED <<lsh_index, first_vec, embeddings, config, sweep>>

NextMatch ==
    \/ CallGreedyCentroidMatch
    \/ DriftRowStep
    \/ CallRunTempSeedClustering

SpecMatch == InitMatch /\ [][NextMatch]_vars

MatchReturned == call.op = "greedy_centroid_match"

\* C18: the matches of greedy_centroid_match, in the order they were
\* committed, are of non-increasing similarity; each has the highest
\* similarity among the pairs of a baseline and a target cluster that no
\* earlier match holds; no cluster of either side is in two matches.
C18_GreedyOrder ==
    MatchReturned =>
        LET m == ret.matches IN
        /\ \A i \in DOMAIN m :
              /\ m[i][1] \in Keys(call.base) /\ m[i][2] \in Keys(call.target)
              /\ m[i][3] = DotSim(Get(call.base, m[i][1]), Get(call.target, m[i][2]))
        /\ \A i \in DOMAIN m, j \in DOMAIN m : i < j => ~SimLess(m[i][3], m[j][3])
        /\ \A i \in DOMAIN m :
              \A b \in Keys(call.base) \ { m[j][1] : j \in 1..(i - 1) },
                 t \in Keys(call.target) \ { m[j][2] : j \in 1..(i - 1) } :
                    ~SimLess(m[i][3], DotSim(Get(call.base, b), Get(call.target, t)))
        /\ \A i \in DOMAIN m, j \in DOMAIN m :
              (m[i][1] = m[j][1] \/ m[i][2] = m[j][2]) => i = j

\* C18 witness: two matches of different similarity were committed, the
\* second one between the clusters listed first on both sides.
C18_Witness ==
    /\ MatchReturned
    /\ Len(ret.matches) = 2
    /\ SimLess(ret.matches[2][3], ret.matches[1][3])
    /\ ret.matches[2][1] = call.base[1][1]
    /\ ret.matches[2][2] = call.target[1][1]

DriftReturned == call.op = "drift_row"

\* C19: when the baseline run has no clusters, or no clusters are matched,
\* the average centroid similarity of the drift row is null, not a number.
C19_NullAverageWhenNothingMatched ==
    (DriftReturned /\ (call.base = <<>> \/ ret.matched_clusters = 0)) =>
        ret.avg_centroid_similarity.kind = "None"

\* The baseline run and the target run have the same embeddings and the same
\* partition, with at least one cluster.
SameRunTwice ==
    /\ DriftReturned
    /\ call.baseline_run = call.target_run
    /\ call.base # <<>>

\* The real number of a similarity <<num, densq>> is 1, or is 0.
SimIsOne(sim) == sim[1] > 0 /\ sim[1] * sim[1] = sim[2]
SimIsZero(sim) == sim[1] = 0

\* A float that is the mean of similarities is 1.0.  The similarities are
\* dot products of centroids of norm 1 or 0, none above 1, so their mean is 1
\* exactly when each is 1.
MeanIsOne(x) ==
    /\ x.kind = "float"
    /\ x.count = Len(x.terms) /\ x.count > 0
    /\ \A i \in DOMAIN x.terms : SimIsOne(x.terms[i])

\* C20 as claimed: when one centroid set, computed by compute_centroids and
\* not empty, is both baseline and target, the average matched similarity is
\* 1.0 and both unmatched sets are empty.
C20_Original ==
    SameRunTwice =>
        /\ MeanIsOne(call.match.avg_similarity)
        /\ call.match.unmatched_base = {}
        /\ call.match.unmatched_target = {}

\* The centroid of a cluster is the zero vector.
ZeroCentroid(c) == Dot(c.vec, c.vec) = 0

\* C20 amended: when one centroid set, computed by compute_centroids and not
\* empty, is both baseline and target, both unmatched sets are empty and
\* every cluster is matched, with similarity 1 for as many matches as there
\* are clusters of non-zero centroid and similarity 0 for the others; so the
\* average is 1.0 when no cluster has the zero vector as its centroid.
C20_SelfMatch ==
    SameRunTwice =>
        LET m    == call.match.matches
            zero == { i \in DOMAIN call.base : ZeroCentroid(call.base[i][2]) }
        IN  /\ call.match.unmatched_base = {}
            /\ call.match.unmatched_target = {}
            /\ Len(m) = Len(call.base)
            /\ Cardinality({ i \in DOMAIN m : SimIsZero(m[i][3]) }) = Cardinality(zero)
            /\ Cardinality({ i \in DOMAIN m : SimIsOne(m[i][3]) })
                  = Len(call.base) - Cardinality(zero)
            /\ call.match.avg_similarity = Mean([i \in DOMAIN m |-> m[i][3]])
            /\ zero = {} => MeanIsOne(call.match.avg_similarity)

\* C20 witness: a run with two clusters, neither of zero centroid, is matched
\* with itself.
C20_Witness ==
    /\ SameRunTwice
    /\ Len(call.base) = 2
    /\ \A i \in DOMAIN call.base : ~ZeroCentroid(call.base[i][2])

\* The cosine of the sums s and t is below the rational threshold; the cosine
\* with a zero vector counts as 0.
CosineBelow(s, t, threshold) ==
    IF Dot(s, s) = 0 \/ Dot(t, t) = 0 THEN 0 < threshold[1]
    ELSE SignedSquare(Dot(s, t)) * threshold[2] * threshold[2]
            < SignedSquare(threshold[1]) * Dot(s, s) * Dot(t, t)

\* The sum of the embeddings of the documents of a run with this label: it
\* has the direction of the centroid of the cluster.
ClusterSum(run, label) ==
    VecSum(Members(run.partition, label), run.embeddings)

\* C21: a cluster of the target run is listed in temp_only_rows, once, iff
\* its maximum cosine similarity to the baseline centroids, taken as 0.0 when
\* the baseline has none, is strictly below the threshold; whether the greedy
\* matching matched it plays no part.
C21_TempOnlyIffBelowThreshold ==
    DriftReturned =>
        LET rows   == call.temp_only_rows
            blabs  == LabelsOf(call.baseline_run.partition) \ {-1}
            tlabs  == LabelsOf(call.target_run.partition) \ {-1}
            far(c) == IF blabs = {} THEN 0 < call.threshold[1]
                      ELSE \A b \in blabs :
                              CosineBelow(ClusterSum(call.target_run, c),
                                          ClusterSum(call.baseline_run, b),
                                          call.threshold)
        IN  /\ \A c \in tlabs :
                  Cardinality({ i \in DOMAIN rows : rows[i].cluster_id = c })
                     = (IF far(c) THEN 1 ELSE 0)
            /\ \A i \in DOMAIN rows : rows[i].cluster_id \in tlabs

\* C21 witness: of two target clusters, both matched by the greedy matching,
\* one is listed and the other, whose similarity to a baseline centroid
\* equals the threshold, is not.
C21_Witness ==
    /\ DriftReturned
    /\ Len(call.target) = 2
    /\ Len(call.match.matches) = 2
    /\ Len(call.temp_only_rows) = 1
    /\ call.threshold = <<1, 1>>
    /\ \E i \in DOMAIN call.target :
          LET max_sim == MaxSim(call.target[i][2], call.base)
          IN  max_sim[1] > 0 /\ max_sim[1] * max_sim[1] = max_sim[2]

\* The tuple the last call of greedy_centroid_match returned.
LastMatch == IF DriftReturned THEN call.match ELSE ret

\* C25: when both centroid maps are non-empty, greedy_centroid_match returns
\* min(|baseline|, |target|) matches, so one of the unmatched sets is empty,
\* and the unmatched sets are the clusters of each side that are in no match.
C25_MatchCount ==
    ((MatchReturned \/ DriftReturned) /\ call.base # <<>> /\ call.target # <<>>) =>
        LET m  == LastMatch.matches
            nb == Cardinality(Keys(call.base))
            nt == Cardinality(Keys(call.target))
        IN  /\ Len(m) = IF nb < nt THEN nb ELSE nt
            /\ LastMatch.unmatched_base = {} \/ LastMatch.unmatched_target = {}
            /\ LastMatch.unmatched_base
                  = { b \in Keys(call.base) : \A i \in DOMAIN m : m[i][1] # b }
            /\ LastMatch.unmatched_target
                  = { t \in Keys(call.target) : \A i \in DOMAIN m : m[i][2] # t }

\* C25 witness: one baseline cluster and two target clusters gave one match
\* and left one target cluster unmatched.
C25_Witness ==
    /\ MatchReturned
    /\ Len(call.base) = 1 /\ Len(call.target) = 2
    /\ Len(ret.matches) = 1
    /\ Cardinality(ret.unmatched_target) = 1

SeedRunsReturned == call.op = "run_temp_seed_clustering"

\* C27: in every result of run_temp_seed_clustering, centroids and
\* cluster_sizes have the same keys, the labels of the partition other than
\* -1, each once; num_clusters is their number; the cluster sizes and the
\* number of -1 labels add up to the number of documents; noise_ratio is the
\* number of -1 labels over the number of documents.
C27_RunResultConsistent ==
    SeedRunsReturned =>
        /\ Len(ret.value) = Len(call.seeds)
        /\ \A k \in DOMAIN ret.value :
              LET r      == ret.value[k]
                  labels == LabelsOf(r.partition) \ {-1}
                  noise  == Cardinality({ i \in DOMAIN r.partition : r.partition[i][2] = -1 })
              IN  /\ Keys(r.centroids) = labels
                  /\ Keys(r.cluster_sizes) = labels
                  /\ Len(r.centroids) = Cardinality(labels)
                  /\ Len(r.cluster_sizes) = Cardinality(labels)
                  /\ r.num_clusters = Cardinality(labels)
                  /\ SumSeq([i \in DOMAIN r.cluster_sizes |-> r.cluster_sizes[i][2]]) + noise
                        = Len(call.embeddings)
                  /\ r.noise_ratio = <<noise, Len(call.embeddings)>>
                  /\ Keys(r.partition) = Keys(call.embeddings)

\* C27 witness: two seeds gave two results over two documents, one with a
\* noise document and a cluster, the other with two clusters.
C27_Witness ==
    /\ SeedRunsReturned
    /\ Len(ret.value) = 2
    /\ LabelsOf(ret.value[1].partition) = {-1, 0}
    /\ LabelsOf(ret.value[2].partition) = {0, 1}

---------------------------------------------------------------------------
(* fetch_replicate of run_irac_benchmark.py: one call, a step per request *)

\* max_retries of the creation loop.
max_retries == 5

\* How many times the poll loop (while True) is followed.
MaxPolls == 2

\* The result dict of fetch_replicate with the key "error".
ErrorResult(why) == [kind |-> "error", error |-> why]

\* What client.post can do: raise, or answer with a status code and a body
\* that holds ["urls"]["get"] or does not.
PostOutcomes ==
    { [kind |-> "raise"] } \cup
    { [kind |-> "response", status |-> st, has_get_url |-> b] :
        st \in {201, 429, 500}, b \in BOOLEAN }

\* What client.get can do: raise, or answer with a status code; a 200 carries
\* the prediction's status and, once succeeded, its output text.
GetOutcomes ==
    { [kind |-> "raise"] } \cup
    { [kind |-> "response", status |-> st, pred_status |-> "none", text |-> "none"] :
        st \in {429, 500} } \cup
    { [kind |-> "response", status |-> 200, pred_status |-> ps, text |-> "none"] :
        ps \in {"starting", "failed", "canceled"} } \cup
    { [kind |-> "response", status |-> 200, pred_status |-> "succeeded", text |-> t] :
        t \in {"irac", "no_json", "missing_keys"} }

\* Lines 177-178, reached by the break of line 175 and by the end of the for
\* loop alike: prediction = resp.json(); get_url = prediction["urls"]["get"].
\* A body without the key raises, and lines 226-228 turn that into an error
\* result.
AfterCreationLoop(c, resp) ==
    IF resp.has_get_url
    THEN [call |-> [c EXCEPT !.pc = "poll", !.resp = resp, !.prediction = resp],
          ret  |-> None]
    ELSE [call |-> [c EXCEPT !.pc = "done", !.resp = resp, !.prediction = resp],
          ret  |-> ErrorResult("exception")]

\* `continue` of the creation loop: the next attempt, or the end of the loop.
ContinueCreation(c, resp) ==
    IF c.attempt + 1 < max_retries
    THEN [call |-> [c EXCEPT !.attempt = c.attempt + 1, !.resp = resp],
          ret  |-> None]
    ELSE AfterCreationLoop([c EXCEPT !.attempt = c.attempt + 1], resp)

\* One iteration of the creation loop on the outcome of client.post.
CreationAttempt(c, out) ==
    IF out.kind = "raise"
    THEN [call |-> [c EXCEPT !.pc = "done"], ret |-> ErrorResult("exception")]
    ELSE IF out.status = 429
    THEN ContinueCreation(c, out)
    ELSE IF out.status # 201
    THEN IF c.attempt = max_retries - 1
         THEN [call |-> [c EXCEPT !.pc = "done", !.resp = out],
               ret  |-> ErrorResult("Status")]
         ELSE ContinueCreation(c, out)
    ELSE AfterCreationLoop(c, out)

\* One iteration of the poll loop on the outcome of client.get.
PollAttempt(c, out) ==
    LET polled == [c EXCEPT !.polls = c.polls + 1]
    IN  IF out.kind = "raise"
        THEN [call |-> [polled EXCEPT !.pc = "done"], ret |-> ErrorResult("exception")]
        ELSE IF out.status # 200
        THEN [call |-> polled, ret |-> None]
        ELSE IF out.pred_status = "succeeded"
        THEN [call |-> [polled EXCEPT !.pc = "done"],
              ret  |-> IF out.text = "irac" THEN [kind |-> "response"]
                       ELSE ErrorResult(out.text)]
        ELSE IF out.pred_status \in {"failed", "canceled"}
        THEN [call |-> [polled EXCEPT !.pc = "done"], ret |-> ErrorResult("Prediction status")]
        ELSE [call |-> polled, ret |-> None]

InitReplicate ==
    /\ lsh_index = None
    /\ first_vec = <<>>
    /\ embeddings = <<>>
    /\ config = NoConfig
    /\ call = [op |-> "none"]
    /\ ret = None
    /\ sweep = NoSweep

\* fetch_replicate is called with the API token set.
CallFetchReplicate ==
    /\ call.op = "none"
    /\ call' = [op |-> "fetch_replicate", pc |-> "post", attempt |-> 0,
                resp |-> None, prediction |-> None, polls |-> 0]
    /\ UNCHANGED <<lsh_index, first_vec, embeddings, config, ret, sweep>>

\* client.post of the creation loop answers.
PostPrediction ==
    /\ call.op = "fetch_replicate"
    /\ call.pc = "post"
    /\ \E out \in PostOutcomes :
          LET step == CreationAttempt(call, out)
          IN  call' = step.call /\ ret' = step.ret
    /\ UNCHANGED <<lsh_index, first_vec, embeddings, config, sweep>>

\* client.get of the poll loop answers.
PollPrediction ==
    /\ call.op = "fetch_replicate"
    /\ call.pc = "poll"
    /\ call.polls < MaxPolls
    /\ \E out \in GetOutcomes :
          LET step == PollAttempt(call, out)
          IN  call' = step.call /\ ret' = step.ret
    /\ UNCHANGED <<lsh_index, first_vec, embeddings, config, sweep>>

NextReplicate ==
    \/ CallFetchReplicate
    \/ PostPrediction
    \/ PollPrediction

SpecReplicate == InitReplicate /\ [][NextReplicate]_vars

\* C29: fetch_replicate reads a response as the created prediction, and
\* polls, only when that response answered the creation request with 201;
\* after five creation attempts answered 429 or another status it returns an
\* error result with no response read as a prediction.
C29_PollOnlyAfterCreated ==
    call.op = "fetch_replicate" =>
        /\ call.prediction # None => call.prediction.status = 201
        /\ call.pc = "poll" => call.prediction # None
        /\ (call.attempt = max_retries /\ call.pc = "done") =>
              (ret.kind = "error" /\ call.prediction = None)

---------------------------------------------------------------------------
(* generate_temperature_bucket of temperature_sweep.py: one call, a step per
   round of requests.  A round is the requests created together and awaited
   together; a step is the arrival of a round's results and the code up to
   the next round or the return.  Of each request only its outcome counts:
   fetch_openai_response returns a dict with "error" for every exception. *)

\* The largest responses_per_temp of a call.
MaxResponses == 3

Max(a, b) == IF a >= b THEN a ELSE b

Min(a, b) == IF a <= b THEN a ELSE b

\* retry_budget = max(10, responses_per_temp // 5)
RetryBudget(responses_per_temp) == Max(10, responses_per_temp \div 5)

\* The while test with one more round allowed.
RetryLoopContinues_OneMore(successes, responses_per_temp, retry_count) ==
    /\ successes < responses_per_temp
    /\ retry_count <= RetryBudget(responses_per_temp)

\* while len(successes) < responses_per_temp and retry_count < retry_budget
RetryLoopContinues(successes, responses_per_temp, retry_count) ==
    /\ successes < responses_per_temp
    /\ retry_count < RetryBudget(responses_per_temp)

\* The code between the results of a round and the next await: the while
\* test, then either `missing` new requests or the return of
\* successes[:responses_per_temp].  c holds successes and retry_count as the
\* round left them.
AfterRound(c) ==
    IF RetryLoopContinues(c.successes, c.responses_per_temp, c.retry_count)
    THEN [call |-> [c EXCEPT !.pc = "retry",
                             !.issued = c.responses_per_temp - c.successes],
          ret  |-> None]
    ELSE [call |-> [c EXCEPT !.pc = "returned", !.issued = 0],
          ret  |-> [kind |-> "bucket",
                    successes |-> Min(c.successes, c.responses_per_temp)]]

\* The call up to its first await: responses_per_temp requests are created.
BucketCall(temperature, responses_per_temp) ==
    [op |-> "generate_temperature_bucket", pc |-> "initial",
     temperature |-> temperature, responses_per_temp |-> responses_per_temp,
     issued |-> responses_per_temp, successes |-> 0, retry_count |-> 0]

InitBucket ==
    /\ lsh_index = None
    /\ first_vec = <<>>
    /\ embeddings = <<>>
    /\ config = NoConfig
    /\ call = [op |-> "none"]
    /\ ret = None
    /\ sweep = NoSweep

\* generate_temperature_bucket is called on its own.
CallGenerateTemperatureBucket ==
    /\ call.op = "none"
    /\ sweep = NoSweep
    /\ \E responses_per_temp \in 1..MaxResponses :
          call' = BucketCall(1, responses_per_temp)
    /\ UNCHANGED <<lsh_index, first_vec, embeddings, config, ret, sweep>>

\* The initial requests have all returned, ok of them without "error".
InitialRound ==
    /\ call.op = "generate_temperature_bucket"
    /\ call.pc = "initial"
    /\ \E ok \in 0..call.issued :
          LET step == AfterRound([call EXCEPT !.successes = ok])
          IN  call' = step.call /\ ret' = step.ret
    /\ UNCHANGED <<lsh_index, first_vec, embeddings, config, sweep>>

\* The requests of a retry round have all returned, ok of them without
\* "error".
RetryRound ==
    /\ call.op = "generate_temperature_bucket"
    /\ call.pc = "retry"
    /\ \E ok \in 0..call.issued :
          LET step == AfterRound([call EXCEPT !.successes = call.successes + ok,
                                              !.retry_count = call.retry_count + 1])
          IN  call' = step.call /\ ret' = step.ret
    /\ UNCHANGED <<lsh_index, first_vec, embeddings, config, sweep>>

NextBucket ==
    \/ CallGenerateTemperatureBucket
    \/ InitialRound
    \/ RetryRound

SpecBucket == InitBucket /\ [][NextBucket]_vars

\* Every request returns in the end: a round that is awaited completes.
SpecBucketFair ==
    SpecBucket /\ WF_vars(InitialRound) /\ WF_vars(RetryRound)

BucketCalled == call.op = "generate_temperature_bucket"

\* C30: a call of generate_temperature_bucket returns; it runs at most
\* max(10, responses_per_temp // 5) retry rounds, a retry round issues as
\* many requests as successes are missing and is run only while some are
\* missing, and no more than responses_per_temp successes are returned.
C30_BucketTerminates ==
    /\ [](BucketCalled =>
            /\ call.retry_count <= RetryBudget(call.responses_per_temp)
            /\ call.successes <= call.responses_per_temp
            /\ call.pc = "retry" =>
                  /\ call.issued = call.responses_per_temp - call.successes
                  /\ call.issued > 0
            /\ call.pc = "returned" =>
                  /\ ret.successes <= call.responses_per_temp
                  /\ ret.successes = call.successes
                  /\ \/ call.successes = call.responses_per_temp
                     \/ call.retry_count = RetryBudget(call.responses_per_temp))
    /\ (BucketCalled ~> (BucketCalled /\ call.pc = "returned"))

\* C30 witness: the call returned short of responses_per_temp after using its
\* whole retry budget.
C30_Witness ==
    /\ BucketCalled
    /\ call.pc = "returned"
    /\ call.retry_count = RetryBudget(call.responses_per_temp)
    /\ 0 < ret.successes
    /\ ret.successes < call.responses_per_temp

---------------------------------------------------------------------------
(* run of temperature_sweep.py.  sweep holds run's locals and what it has
   written; the generate_temperature_bucket call it awaits is in call and
   ret.  Temperatures are numbered by their order (1 < 2 < 3); a clustering
   run is named by its temperature, its seed, its place in the seed list and
   the number of documents it was given. *)

\* The --temperatures lists a call is given, after parse_float_list's split.
TemperatureLists ==
    { <<>>, <<1>>, <<1, 2>>, <<2, 1>>, <<1, 1>>, <<2, 1, 2>>, <<3, 1, 2>> }

\* Where sorted() puts x in an ascending list.
RECURSIVE Insert(_, _)
Insert(x, seq) ==
    IF seq = <<>> THEN <<x>>
    ELSE IF x < seq[1] THEN <<x>> \o seq
    ELSE <<seq[1]>> \o Insert(x, Tail(seq))

\* sorted(values)
RECURSIVE Sorted(_)
Sorted(seq) ==
    IF seq = <<>> THEN <<>> ELSE Insert(seq[Len(seq)], Sorted(SubSeq(seq, 1, Len(seq) - 1)))

\* The tests of lines 465 and 468 asking for one value only.
TooFew_One(values) == Len(values) < 1

\* len(temperatures) < 2, len(seeds) < 2
TooFew(values) == Len(values) < 2

SweepRaised(args, error) ==
    [pc |-> "raised", args |-> args, error |-> error, temperatures |-> <<>>,
     seeds |-> <<>>, t_idx |-> 0, generated_by_temp |-> <<>>,
     results_by_temp |-> <<>>, drift_rows |-> <<>>, out_dir |-> FALSE,
     files |-> {}]

\* run up to the generation loop: the state of the locals there, or the
\* exception raised before.
RunStart(args) ==
    IF args.temperatures = <<>> \/ args.seeds = <<>>
    THEN SweepRaised(args, "ValueError")
    ELSE IF ~args.questions_ok
    THEN SweepRaised(args, "ValueError")
    ELSE IF TooFew(Sorted(args.temperatures))
    THEN SweepRaised(args, "ValueError")
    ELSE IF TooFew(args.seeds)
    THEN SweepRaised(args, "ValueError")
    ELSE IF ~args.api_key
    THEN SweepRaised(args, "RuntimeError")
    ELSE [pc |-> "generate", args |-> args, error |-> "none",
          temperatures |-> Sorted(args.temperatures), seeds |-> args.seeds,
          t_idx |-> 1, generated_by_temp |-> <<>>, results_by_temp |-> <<>>,
          drift_rows |-> <<>>, out_dir |-> TRUE, files |-> {}]

InitSweep ==
    /\ lsh_index = None
    /\ first_vec = <<>>
    /\ embeddings = <<>>
    /\ config = NoConfig
    /\ call = [op |-> "none"]
    /\ ret = None
    /\ sweep = NoSweep

\* run(args) up to its first await, the first temperature's initial requests.
CallRun ==
    /\ sweep = NoSweep
    /\ call.op = "none"
    /\ \E temperatures \in TemperatureLists, seeds \in SeedLists,
          responses_per_temp \in 1..MaxResponses,
          questions_ok \in BOOLEAN, api_key \in BOOLEAN :
          LET args  == [temperatures |-> temperatures, seeds |-> seeds,
                        responses_per_temp |-> responses_per_temp,
                        questions_ok |-> questions_ok, api_key |-> api_key]
              start == RunStart(args)
          IN  /\ sweep' = start
              /\ call' = IF start.pc = "generate"
                         THEN BucketCall(start.temperatures[1], responses_per_temp)
                         ELSE call
    /\ UNCHANGED <<lsh_index, first_vec, embeddings, config, ret>>

\* The clustering loop of lines 526-533 from temperature number i on;
\* results_by_temp holds the entries written so far.
RECURSIVE ClusterTemperatures(_, _, _, _, _)
ClusterTemperatures(temperatures, seeds, generated_by_temp, i, results_by_temp) ==
    IF i > Len(temperatures) THEN results_by_temp
    ELSE LET t    == temperatures[i]
             runs == [k \in DOMAIN seeds |->
                        [temperature |-> t, seed |-> seeds[k], index |-> k,
                         n_items |-> Get(generated_by_temp, t)]]
         IN  ClusterTemperatures(temperatures, seeds, generated_by_temp, i + 1,
                                 Put(results_by_temp, t, runs))

\* next(r for r in runs if r.seed == analysis_seed)
FirstWithSeed(runs, analysis_seed) ==
    runs[CHOOSE k \in DOMAIN runs :
            /\ runs[k].seed = analysis_seed
            /\ \A j \in 1..(k - 1) : runs[j].seed # analysis_seed]

\* The drift loop of lines 566-606: a row for each of temperatures[1:], with
\* the two runs it compares.
DriftRows(temperatures, seeds, results_by_temp) ==
    LET baseline_run == FirstWithSeed(Get(results_by_temp, temperatures[1]), seeds[1])
    IN  [i \in 1..(Len(temperatures) - 1) |->
           [temperature  |-> temperatures[i + 1],
            baseline_run |-> baseline_run,
            target_run   |-> FirstWithSeed(Get(results_by_temp, temperatures[i + 1]),
                                           seeds[1])]]

\* The files of lines 638-649.
OutputFiles ==
    { "config.json", "summary_table.json", "stability_pairs.json",
      "centroid_drift.json", "temperature_only_clusters.json",
      "clustering_runs.json", "report.md" }

\* generate_temperature_bucket has returned to the generation loop: the
\* bucket is stored, and the run raises, goes on to the next temperature, or
\* writes the responses and goes on to cluster.
GenerationStep ==
    /\ sweep.pc = "generate"
    /\ call.op = "generate_temperature_bucket"
    /\ call.pc = "returned"
    /\ LET t      == sweep.temperatures[sweep.t_idx]
           stored == [sweep EXCEPT !.generated_by_temp = Put(@, t, ret.successes)]
       IN  IF ret.successes = 0
           THEN /\ sweep' = [stored EXCEPT !.pc = "raised", !.error = "RuntimeError"]
                /\ call' = [op |-> "none"]
           ELSE IF sweep.t_idx < Len(sweep.temperatures)
           THEN /\ sweep' = [stored EXCEPT !.t_idx = @ + 1]
                /\ call' = BucketCall(sweep.temperatures[sweep.t_idx + 1],
                                      sweep.args.responses_per_temp)
           ELSE /\ sweep' = [stored EXCEPT
                               !.pc = "cluster",
                               !.files = { "responses_by_temperature.json",
                                           "failures_by_temperature.json" }]
                /\ call' = [op |-> "none"]
    /\ ret' = None
    /\ UNCHANGED <<lsh_index, first_vec, embeddings, config>>

\* Lines 518-533: every temperature's bucket is clustered under every seed.
ClusteringStep ==
    /\ sweep.pc = "cluster"
    /\ sweep' = [sweep EXCEPT
                   !.pc = "drift",
                   !.results_by_temp =
                       ClusterTemperatures(sweep.temperatures, sweep.seeds,
                                           sweep.generated_by_temp, 1, <<>>)]
    /\ UNCHANGED <<lsh_index, first_vec, embeddings, config, call, ret>>

\* Lines 566-649: the drift rows, then the output files.
DriftStep ==
    /\ sweep.pc = "drift"
    /\ sweep' = [sweep EXCEPT
                   !.pc = "done",
                   !.drift_rows = DriftRows(sweep.temperatures, sweep.seeds,
                                            sweep.results_by_temp),
                   !.files = @ \cup OutputFiles]
    /\ UNCHANGED <<lsh_index, first_vec, embeddings, config, call, ret>>

NextSweep ==
    \/ CallRun
    \/ InitialRound
    \/ RetryRound
    \/ GenerationStep
    \/ ClusteringStep
    \/ DriftStep

SpecSweep == InitSweep /\ [][NextSweep]_vars

RunCalled == sweep.pc # "none"

\* C22: a run given fewer than 2 seeds or fewer than 2 temperatures raises an
\* error with no request issued, no clustering run, no output directory and
\* no file.
C22_TooFewFailsFirst ==
    (RunCalled /\ (Len(sweep.args.temperatures) < 2 \/ Len(sweep.args.seeds) < 2)) =>
        /\ sweep.pc = "raised"
        /\ sweep.error = "ValueError"
        /\ call.op = "none"
        /\ sweep.generated_by_temp = <<>>
        /\ sweep.results_by_temp = <<>>
        /\ ~sweep.out_dir
        /\ sweep.files = {}

\* C22 witness: a run given one temperature and two seeds has raised.
C22_Witness ==
    /\ RunCalled
    /\ Len(sweep.args.temperatures) = 1
    /\ Len(sweep.args.seeds) = 2
    /\ sweep.args.api_key /\ sweep.args.questions_ok
    /\ sweep.pc = "raised"

\* C24: every clustering run of every temperature is given exactly
\* responses_per_temp documents.
C24_FullBatches ==
    (RunCalled /\ sweep.pc \in {"drift", "done"}) =>
        \A e \in DOMAIN sweep.results_by_temp :
            \A k \in DOMAIN sweep.results_by_temp[e][2] :
                sweep.results_by_temp[e][2][k].n_items = sweep.args.responses_per_temp

\* The least of the temperatures given.
LowestTemperature(values) ==
    CHOOSE t \in { values[i] : i \in DOMAIN values } :
        \A i \in DOMAIN values : t <= values[i]

\* C26: the drift baseline is the first-seed run of the lowest temperature
\* given; there is exactly one drift row for each other temperature, and it
\* compares that temperature's first-seed run with the baseline run.
C26_DriftRows ==
    (RunCalled /\ sweep.pc = "done") =>
        LET given  == { sweep.args.temperatures[i] : i \in DOMAIN sweep.args.temperatures }
            lowest == LowestTemperature(sweep.args.temperatures)
            rows   == sweep.drift_rows
        IN  /\ \A t \in given \ {lowest} :
                  Cardinality({ i \in DOMAIN rows : rows[i].temperature = t }) = 1
            /\ \A i \in DOMAIN rows :
                  /\ rows[i].temperature \in given \ {lowest}
                  /\ rows[i].baseline_run.temperature = lowest
                  /\ rows[i].baseline_run.index = 1
                  /\ rows[i].target_run.temperature = rows[i].temperature
                  /\ rows[i].target_run.index = 1

====
